---- MODULE Spec2Model ----
(***************************************************************************)
(* A model of the excel-transformer backend (src/backend/app.py): the      *)
(* geocoding service, the lazily loaded postal-code lookup table, the      *)
(* termination filter and the per-sheet / per-workbook transformation.     *)
(*                                                                         *)
(* Python values are modelled as tagged records: a missing value (None or  *)
(* a pandas NaN cell) is PyNone, a string is PyStr(s) with s the sequence  *)
(* of its characters, so that strip(), prefix removal, float parsing and   *)
(* zero padding are computed and not assumed.                              *)
(***************************************************************************)
EXTENDS Integers, Sequences, FiniteSets, TLC

VARIABLES
  svc,        \* the GeocodingService instance under test (SpecGeo)
  call,       \* the last geocode() call: its arguments and what it did
  ncalls,     \* number of geocode() calls made on svc
  reffile,    \* the postal-code reference file on disk (SpecLoad)
  cache,      \* _POSTAL_CODE_LOOKUP_CACHE
  lpc,        \* per thread: position inside _load_postal_code_lookup_once
  local,      \* per thread: the loader's local variable `lookup`
  got,        \* per thread: the table its last construction received
  nbuilt,     \* number of times the reference file was scanned
  nctor,      \* per thread: GeocodingService constructions started
  imported,   \* the module-level startup_check() has returned
  wpc,        \* position of transform_excel_multi_sheet (SpecBook) / of the caller (SpecSheet)
  terminated_ids, \* the termination set of the workbook run
  nextract,   \* number of calls of extract_terminated_clinic_ids in the run
  termination_sheets, \* the termination sheets classify_sheets found
  sheet_idx,  \* number of panel sheets the loop has taken
  cur,        \* the panel sheet handed to transform_sheet and its result
  results,    \* the workbook's result entries written so far
  outcome,    \* the value transform_excel_multi_sheet returned
  runs,       \* the workbook runs the process has finished, oldest first (SpecRuns)
  fn,         \* the last application of a helper function: name, arguments, result
  batch_jobs, \* batch_processor.batch_jobs[batch_id] of the batch upload_batch created
  lock,       \* the thread holding batch_processor.lock, "free" when none does
  worker,     \* per thread of the batch: position, file taken, its file_result
  upload      \* the upload_batch request: position, files, results, response

geoVars  == <<svc, call, ncalls>>
loadVars == <<reffile, cache, lpc, local, got, nbuilt, nctor, imported>>
bookVars == <<wpc, terminated_ids, nextract, termination_sheets, sheet_idx, cur, results,
             outcome, runs>>
fnVars   == <<fn>>
batchVars == <<batch_jobs, lock, worker, upload>>
vars     == <<svc, call, ncalls, reffile, cache, lpc, local, got, nbuilt, nctor,
              imported,
              wpc, terminated_ids, nextract, termination_sheets, sheet_idx, cur,
              results, outcome, runs, fn, batch_jobs, lock, worker, upload>>

-----------------------------------------------------------------------------
(* Bounds of the model *)

\* geocode() calls made on one service instance
MaxCalls == 2
\* GeocodingService constructions per thread
MaxCtor == 2
\* data rows of a sheet handed to a single transform_sheet call
MaxRows == 2
\* data rows of a sheet inside a whole-workbook run
MaxBookRows == 1
\* data rows of a termination sheet
MaxTermRows == 1
\* panel sheets of a workbook
MaxPanel == 2
\* termination sheets of a workbook
MaxTerm == 1

-----------------------------------------------------------------------------
(* Python values and string primitives *)

PyNone == [t |-> "None", s |-> <<>>]
PyStr(s) == [t |-> "str", s |-> s]
IsNone(v) == v.t = "None"

DigitChars == <<"0", "1", "2", "3", "4", "5", "6", "7", "8", "9">>
UpperChars == <<"A", "B", "C", "D", "E", "F", "G", "H", "I", "J", "K", "L", "M",
                "N", "O", "P", "Q", "R", "S", "T", "U", "V", "W", "X", "Y", "Z">>
LowerChars == <<"a", "b", "c", "d", "e", "f", "g", "h", "i", "j", "k", "l", "m",
                "n", "o", "p", "q", "r", "s", "t", "u", "v", "w", "x", "y", "z">>

IsDigit(c) == \E i \in 1..10 : DigitChars[i] = c
DigitVal(c) == (CHOOSE i \in 1..10 : DigitChars[i] = c) - 1
IsSpace(c) == c = " "

UpperChar(c) ==
  IF \E i \in 1..26 : LowerChars[i] = c
  THEN UpperChars[CHOOSE i \in 1..26 : LowerChars[i] = c]
  ELSE c
LowerChar(c) ==
  IF \E i \in 1..26 : UpperChars[i] = c
  THEN LowerChars[CHOOSE i \in 1..26 : UpperChars[i] = c]
  ELSE c
Upper(s) == [i \in 1..Len(s) |-> UpperChar(s[i])]
Lower(s) == [i \in 1..Len(s) |-> LowerChar(s[i])]

RECURSIVE LStrip(_)
LStrip(s) == IF s # <<>> /\ IsSpace(Head(s)) THEN LStrip(Tail(s)) ELSE s
RECURSIVE RStrip(_)
RStrip(s) ==
  IF s # <<>> /\ IsSpace(s[Len(s)]) THEN RStrip(SubSeq(s, 1, Len(s) - 1)) ELSE s
\* str.strip()
Strip(s) == RStrip(LStrip(s))

\* str(value): a missing value prints as 'None' (None) or 'nan' (NaN); both
\* spellings are treated alike wherever the code tests them.
StrOf(v) == IF IsNone(v) THEN <<"N", "o", "n", "e">> ELSE v.s

AllDigits(s) == \A i \in 1..Len(s) : IsDigit(s[i])
RECURSIVE DigitsToNat(_)
DigitsToNat(s) ==
  IF s = <<>> THEN 0
  ELSE 10 * DigitsToNat(SubSeq(s, 1, Len(s) - 1)) + DigitVal(s[Len(s)])
RECURSIVE NatToDigits(_)
NatToDigits(n) ==
  IF n < 10 THEN <<DigitChars[n + 1]>>
  ELSE NatToDigits(n \div 10) \o <<DigitChars[(n % 10) + 1]>>
RECURSIVE ZeroPad(_, _)
ZeroPad(s, w) == IF Len(s) >= w THEN s ELSE ZeroPad(<<"0">> \o s, w)

DotAt(s) == IF \E i \in 1..Len(s) : s[i] = "."
            THEN CHOOSE i \in 1..Len(s) : s[i] = "." /\ \A j \in 1..(i - 1) : s[j] # "."
            ELSE 0

\* float(text) on the alphabet of the model (digits, '.', letters, blanks; no
\* sign and no exponent): k = "num" with the integer part n and whether the
\* value is whole, "inf", "nan", or "err" (ValueError).
ParseFloat(text) ==
  LET s == Strip(text)
      l == Lower(s)
      d == DotAt(s)
      ip == IF d = 0 THEN s ELSE SubSeq(s, 1, d - 1)
      fp == IF d = 0 THEN <<>> ELSE SubSeq(s, d + 1, Len(s))
  IN  IF l = <<"i", "n", "f">> \/ l = <<"i", "n", "f", "i", "n", "i", "t", "y">>
        THEN [k |-> "inf", n |-> 0, whole |-> FALSE]
      ELSE IF l = <<"n", "a", "n">>
        THEN [k |-> "nan", n |-> 0, whole |-> FALSE]
      ELSE IF AllDigits(ip) /\ AllDigits(fp) /\ Len(ip) + Len(fp) > 0
        THEN [k |-> "num", n |-> DigitsToNat(ip), whole |-> DigitsToNat(fp) = 0]
      ELSE [k |-> "err", n |-> 0, whole |-> FALSE]

-----------------------------------------------------------------------------
(* The postal-code lookup table and its loader's scan of the reference file *)

NoCoord == "None"

\* lookup[postal_code] = (lat, lng): a dict assignment replaces an earlier entry
PutEntry(table, key, lat, lng) ==
  {e \in table : e.key # key} \cup {[key |-> key, lat |-> lat, lng |-> lng]}
HasKey(table, key) == \E e \in table : e.key = key
EntryOf(table, key) == CHOOSE e \in table : e.key = key

\* A cell of the reference file holds a coordinate: "NaN" is a missing cell,
\* "bad" a cell float() rejects, anything else a number.
CoordUsable(c) == c # "NaN" /\ c # "bad"

\* One row of the scan: a row without a postal code, or without two usable
\* coordinates, is skipped; the postal code is stripped and zero-filled to 6.
ScanRow(table, row) ==
  IF IsNone(row.postal) \/ row.postal.s = <<>> THEN table
  ELSE IF CoordUsable(row.lat) /\ CoordUsable(row.lng)
    THEN PutEntry(table, ZeroPad(Strip(row.postal.s), 6), row.lat, row.lng)
  ELSE table

RECURSIVE BuildLookup(_, _)
BuildLookup(table, rows) ==
  IF rows = <<>> THEN table
  ELSE BuildLookup(ScanRow(table, Head(rows)), Tail(rows))

\* What one run of the loader's body stores in the cache: {} when no file is
\* found or reading it raises, the scanned table otherwise.
LoadTable(file) ==
  IF file.state = "ok" THEN BuildLookup({}, file.rows) ELSE {}

\* The reference files of the model
RefRow(p, lat, lng) == [postal |-> p, lat |-> lat, lng |-> lng]
SgRows ==
  << RefRow(PyStr(<<"1", "2", "3", "4", "5", "6">>), "1.30", "103.80"),
     RefRow(PyStr(<<"2", "3", "4", "5", "6">>), "1.31", "103.81"),
     RefRow(PyNone, "1.32", "103.82"),
     RefRow(PyStr(<<"6", "5", "4", "3", "2", "1">>), "NaN", "103.83"),
     RefRow(PyStr(<<"5", "2", "0", "1", "2", "3">>), "1.34", "103.84"),
     RefRow(PyStr(<<"1", "1", "1", "1", "1", "1">>), "1.35", "bad") >>
RefFiles ==
  { [state |-> "missing", rows |-> <<>>],
    [state |-> "unreadable", rows |-> <<>>],
    [state |-> "ok", rows |-> SgRows] }
SgTable == LoadTable([state |-> "ok", rows |-> SgRows])

-----------------------------------------------------------------------------
(* GeocodingService *)

ZeroStats == [postal_matches |-> 0, api_calls |-> 0, failures |-> 0]

\* GeocodingService.__init__ and _initialize_google_maps_clients: the remote
\* clients exist only when the user enabled the API, a key is configured and
\* the client constructors did not raise.
NewService(use_google_api, has_key, client_ok, table) ==
  [ use_google_api |-> use_google_api,
    geolocator |-> use_google_api /\ has_key /\ client_ok,
    postal_code_lookup |-> table,
    geocode_stats |-> ZeroStats ]

\* The text tests `not x or str(x).strip() in ('None', '', 'nan')`
BlankText(v) ==
  \/ IsNone(v)
  \/ v.s = <<>>
  \/ Strip(StrOf(v)) \in {<<"N", "o", "n", "e">>, <<>>, <<"n", "a", "n">>}

\* The 'S' prefix of a Singapore postal code is dropped
DropPrefix(s) ==
  IF Len(s) > 1 /\ UpperChar(s[1]) = "S" THEN Tail(s) ELSE s

\* postal_code_normalized = f"{int(float(postal_code_str)):06d}":
\* "key" on success, "ValueError" (caught) or "OverflowError" (not caught).
NormalizePostal(v) ==
  LET f == ParseFloat(DropPrefix(Strip(StrOf(v))))
  IN  IF f.k = "num" THEN [r |-> "key", key |-> ZeroPad(NatToDigits(f.n), 6)]
      ELSE IF f.k = "inf" THEN [r |-> "OverflowError", key |-> <<>>]
      ELSE [r |-> "ValueError", key |-> <<>>]

Ret(lat, lng, stats, calls, raised) ==
  [lat |-> lat, lng |-> lng, stats |-> stats, calls |-> calls, raised |-> raised]

geocode_by_postal_code(self, stats, postal_code) ==
  IF BlankText(postal_code) THEN Ret(NoCoord, NoCoord, stats, 0, FALSE)
  ELSE LET n == NormalizePostal(postal_code)
       IN  IF n.r = "OverflowError" THEN Ret(NoCoord, NoCoord, stats, 0, TRUE)
           ELSE IF n.r = "key" /\ HasKey(self.postal_code_lookup, n.key)
             THEN LET e == EntryOf(self.postal_code_lookup, n.key)
                  IN  Ret(e.lat, e.lng,
                          [stats EXCEPT !.postal_matches = @ + 1], 0, FALSE)
           ELSE Ret(NoCoord, NoCoord, stats, 0, FALSE)

RemoteOutcomes == {"found", "not_found", "raises"}
RemoteLat == "R.lat"
RemoteLng == "R.lng"

\* (mutant) the address is not tested before the remote request
geocode_by_address_any(self, stats, address, country, remote) ==
  IF ~self.geolocator
    THEN Ret(NoCoord, NoCoord, stats, 0, FALSE)
  ELSE LET s1 == [stats EXCEPT !.api_calls = @ + 1]
       IN  IF remote = "found" THEN Ret(RemoteLat, RemoteLng, s1, 1, FALSE)
           ELSE Ret(NoCoord, NoCoord, [s1 EXCEPT !.failures = @ + 1], 1, FALSE)

\* One remote request (self.geolocator.geocode(..., timeout=10)): `remote` is
\* what the geocoder does with it; a timeout is one of the ways it raises.
geocode_by_address(self, stats, address, country, remote) ==
  IF BlankText(address) \/ ~self.geolocator
    THEN Ret(NoCoord, NoCoord, stats, 0, FALSE)
  ELSE LET s1 == [stats EXCEPT !.api_calls = @ + 1]
       IN  IF remote = "found" THEN Ret(RemoteLat, RemoteLng, s1, 1, FALSE)
           ELSE Ret(NoCoord, NoCoord, [s1 EXCEPT !.failures = @ + 1], 1, FALSE)

Out(r, method, calls) ==
  [lat |-> r.lat, lng |-> r.lng, method |-> method, stats |-> r.stats,
   calls |-> calls, raised |-> r.raised]
Failed(stats, calls) ==
  [lat |-> NoCoord, lng |-> NoCoord, method |-> "failed", stats |-> stats,
   calls |-> calls, raised |-> FALSE]
Found(r) == r.lat # NoCoord /\ r.lng # NoCoord

\* (mutant) a failed remote request is tried a second time
geocode_malaysia_retry(self, stats, address, country, remote) ==
  IF self.use_google_api
    THEN LET a == geocode_by_address(self, stats, address, country, remote)
             b == geocode_by_address(self, a.stats, address, country, remote)
         IN  IF Found(a) THEN Out(a, "address", a.calls)
             ELSE IF Found(b) THEN Out(b, "address", a.calls + b.calls)
             ELSE Failed(b.stats, a.calls + b.calls)
  ELSE Failed(stats, 0)

\* The MALAYSIA branch of geocode: the local table is not consulted
geocode_malaysia(self, stats, address, country, remote) ==
  IF self.use_google_api
    THEN LET a == geocode_by_address(self, stats, address, country, remote)
         IN  IF Found(a) THEN Out(a, "address", a.calls)
             ELSE Failed(a.stats, a.calls)
  ELSE Failed(stats, 0)

\* The fallback of geocode after the local lookup missed
geocode_fallback(self, stats, address, country, remote) ==
  IF self.use_google_api
    THEN LET a == geocode_by_address(self, stats, address, country, remote)
         IN  IF Found(a) THEN Out(a, "address", a.calls)
             ELSE Failed(a.stats, a.calls)
  ELSE Failed(stats, 0)

\* (mutant) the country hint is ignored
UsesLocalTableAlways(country) == TRUE

UsesLocalTable(country) == country # "MALAYSIA"

\* (mutant) the remote geocoder is asked before the local table
geocode_remote_first(self, postal_code, address, country, remote) ==
  LET a == geocode_fallback(self, self.geocode_stats, address, country, remote)
      p == geocode_by_postal_code(self, a.stats, postal_code)
  IN  IF a.method = "address" THEN a
      ELSE IF UsesLocalTable(country) /\ Found(p) /\ ~p.raised
        THEN Out(p, "postal_code", a.calls)
      ELSE a

geocode(self, postal_code, address, country, remote) ==
  IF ~UsesLocalTable(country)
    THEN geocode_malaysia(self, self.geocode_stats, address, country, remote)
  ELSE LET p == geocode_by_postal_code(self, self.geocode_stats, postal_code)
       IN  IF p.raised THEN Out(p, "raised", 0)
           ELSE IF Found(p) THEN Out(p, "postal_code", 0)
           ELSE geocode_fallback(self, p.stats, address, country, remote)

-----------------------------------------------------------------------------
(* Values the variables of a part hold while another part runs *)

NoCall == [made |-> FALSE]
\* no batch job, nobody in the lock, no thread at work, no request
NoJob == [status |-> "absent"]
NoResult == [success |-> FALSE, file |-> 0, path |-> "none"]
IdleWorker == [pc |-> "idle", file |-> 0, file_result |-> NoResult]
NoUpload == [pc |-> "none"]
BatchIdle ==
  /\ batch_jobs = NoJob /\ lock = "free"
  /\ worker = [t \in {"req", "w1", "w2"} |-> IdleWorker]
  /\ upload = NoUpload
GeoIdle == svc = NewService(FALSE, FALSE, FALSE, {}) /\ call = NoCall /\ ncalls = 0
CacheNone == [loaded |-> FALSE, table |-> {}]
LoadIdle ==
  /\ reffile = [state |-> "missing", rows |-> <<>>] /\ cache = CacheNone
  /\ lpc = <<>> /\ local = <<>> /\ got = <<>> /\ nbuilt = 0 /\ nctor = <<>>
  /\ imported = FALSE
NoFn == [name |-> "none"]
\* a helper function is about to be applied to `arg`
Pending(arg) == [name |-> "pending", arg |-> arg]
FnIdle == fn = NoFn
NoCur == [done |-> FALSE]
NoOutcome == [kind |-> "none"]
BookIdle ==
  /\ wpc = "idle" /\ terminated_ids = {} /\ nextract = 0 /\ sheet_idx = 0
  /\ termination_sheets = <<>>
  /\ cur = NoCur /\ results = <<>> /\ outcome = NoOutcome /\ runs = <<>>

-----------------------------------------------------------------------------
(* SpecGeo: geocode() calls on one GeocodingService *)

Chars6(a, b, c, d, e, f) == PyStr(<<a, b, c, d, e, f>>)
PostalInputs ==
  { PyNone,
    PyStr(<<>>),
    PyStr(<<"n", "a", "n">>),
    Chars6("1", "2", "3", "4", "5", "6"),
    PyStr(<<"s", "1", "2", "3", "4", "5", "6">>),
    PyStr(<<" ", "2", "3", "4", "5", "6", ".", "0", " ">>),
    Chars6("9", "9", "9", "9", "9", "9"),
    PyStr(<<"S">>),
    PyStr(<<"i", "n", "f">>) }
AddressInputs ==
  { PyNone, PyStr(<<" ">>), PyStr(<<"n", "a", "n">>), PyStr(<<"1", " ", "R", "d">>) }
NoCountry == "<None>"
CountryInputs == {NoCountry, "SINGAPORE", "MALAYSIA"}

Services ==
  { NewService(u, k, c, LoadTable(f)) :
      u \in BOOLEAN, k \in BOOLEAN, c \in BOOLEAN, f \in RefFiles }

InitGeo ==
  /\ svc \in Services
  /\ call = NoCall
  /\ ncalls = 0
  /\ LoadIdle /\ BookIdle /\ FnIdle
  /\ BatchIdle

\* One call svc.geocode(postal_code, address, country)
GeocodeCall ==
  /\ ncalls < MaxCalls
  /\ \E p \in PostalInputs, a \in AddressInputs, c \in CountryInputs,
        remote \in RemoteOutcomes :
       \E r \in {geocode(svc, p, a, c, remote)} :
           /\ call' = [ made |-> TRUE, postal_code |-> p, address |-> a,
                        country |-> c, remote |-> remote,
                        before |-> svc.geocode_stats, lat |-> r.lat,
                        lng |-> r.lng, method |-> r.method,
                        calls |-> r.calls, raised |-> r.raised ]
           /\ svc' = [svc EXCEPT !.geocode_stats = r.stats]
  /\ ncalls' = ncalls + 1
  /\ UNCHANGED <<loadVars, bookVars, fnVars, batchVars>>

NextGeo == GeocodeCall
SpecGeo == InitGeo /\ [][NextGeo]_vars

\* the call's postal code normalizes to a key of the service's table
PostalInTable ==
  /\ call.made
  /\ ~BlankText(call.postal_code)
  /\ NormalizePostal(call.postal_code).r = "key"
  /\ HasKey(svc.postal_code_lookup, NormalizePostal(call.postal_code).key)
NoRemoteCall ==
  call.calls = 0 /\ svc.geocode_stats.api_calls = call.before.api_calls

\* C2 (as claimed): with a non-empty table, a call whose normalized postal
\* code is a key of the table makes no remote call and leaves api_calls
\* unchanged, for every country hint and every address.
C2_AsClaimed ==
  (call.made /\ svc.postal_code_lookup # {} /\ PostalInTable) => NoRemoteCall

\* C2 (amended): the same for every country hint other than MALAYSIA: the
\* call returns method 'postal_code' with the table's coordinates, makes no
\* remote call and leaves api_calls unchanged, whatever the address is.
C2_TableHitNoRemote ==
  (call.made /\ svc.postal_code_lookup # {} /\ PostalInTable
     /\ call.country # "MALAYSIA")
  => /\ NoRemoteCall
     /\ call.method = "postal_code"
     /\ call.lat = EntryOf(svc.postal_code_lookup,
                           NormalizePostal(call.postal_code).key).lat

C2_Witness ==
  /\ call.made /\ PostalInTable /\ call.country = "SINGAPORE"
  /\ svc.geolocator /\ ~BlankText(call.address)
  /\ call.postal_code.s # NormalizePostal(call.postal_code).key
  /\ call.method = "postal_code" /\ NoRemoteCall

\* C3: a call with country MALAYSIA never consults the local table: it never
\* returns 'postal_code', leaves postal_matches unchanged and ends in
\* 'address' (remote success) or 'failed'.
C3_MalaysiaBypassesTable ==
  (call.made /\ call.country = "MALAYSIA")
  => /\ ~call.raised
     /\ call.method \in {"address", "failed"}
     /\ svc.geocode_stats.postal_matches = call.before.postal_matches
     /\ (call.method = "address" <=> (call.calls = 1 /\ call.remote = "found"))

C3_Witness ==
  /\ call.made /\ call.country = "MALAYSIA" /\ PostalInTable
  /\ call.method = "failed" /\ svc.use_google_api

CountersUnchanged == svc.geocode_stats = call.before

\* C4 (as claimed): every call that returns increments one of postal_matches,
\* api_calls, failures.
C4_EveryOutcomeCounted ==
  (call.made /\ ~call.raised) => ~CountersUnchanged

\* C5 (as claimed): geocode never raises to its caller, and a call that ends
\* after a remote error, timeout or not-found returns (None, None, 'failed')
\* with the failure counted.
C5_NeverRaises ==
  call.made
  => /\ ~call.raised
     /\ (call.calls = 1 /\ call.remote # "found")
          => /\ call.method = "failed" /\ call.lat = NoCoord /\ call.lng = NoCoord
             /\ svc.geocode_stats.failures = call.before.failures + 1

\* C6: one geocode request invokes the remote geocoder at most once: api_calls
\* grows by the number of remote requests, which is 0 or 1, and a request
\* whose remote call failed ends in 'failed'.
C6_AtMostOneRemoteCall ==
  call.made
  => /\ call.calls \in {0, 1}
     /\ svc.geocode_stats.api_calls = call.before.api_calls + call.calls
     /\ (call.calls = 1 /\ call.remote # "found") => call.method = "failed"

C6_Witness ==
  /\ call.made /\ call.calls = 1 /\ call.remote = "raises"
  /\ call.country = "MALAYSIA" /\ call.method = "failed"

-----------------------------------------------------------------------------
(* SpecLoad: GeocodingService constructions and the shared lookup cache *)

\* The threads of one process that construct a GeocodingService: the main
\* thread running the module-level startup_check(), a request handler, and
\* the two workers of upload_batch's ThreadPoolExecutor.
Threads == {"startup", "req", "w1", "w2"}
BatchWorkers == {"w1", "w2"}

\* (mutant) `if _POSTAL_CODE_LOOKUP_CACHE:` instead of `is not None`
CacheHitTruthy(c) == c.loaded /\ c.table # {}

\* `if _POSTAL_CODE_LOOKUP_CACHE is not None`
CacheHit(c) == c.loaded

InitLoad ==
  /\ reffile \in RefFiles
  /\ cache = CacheNone
  /\ lpc = [t \in Threads |-> "idle"]
  /\ local = [t \in Threads |-> {}]
  /\ got = [t \in Threads |-> {}]
  /\ nbuilt = 0
  /\ nctor = [t \in Threads |-> 0]
  /\ imported = FALSE
  /\ GeoIdle /\ BookIdle /\ FnIdle
  /\ BatchIdle

\* A thread may construct a service: startup_check() does it once, while the
\* module is imported; handlers and workers exist only after the import.
MayConstruct(t) ==
  IF t = "startup" THEN ~imported /\ nctor[t] = 0 ELSE imported

\* GeocodingService.__init__ reaches the call of the loader
Construct(t) ==
  /\ lpc[t] = "idle"
  /\ nctor[t] < MaxCtor
  /\ MayConstruct(t)
  /\ lpc' = [lpc EXCEPT ![t] = "check"]
  /\ nctor' = [nctor EXCEPT ![t] = @ + 1]
  /\ UNCHANGED <<reffile, cache, local, got, nbuilt, imported, geoVars, bookVars, fnVars, batchVars>>

\* The construction of thread t returns with `table`
Returned(t, table) ==
  /\ got' = [got EXCEPT ![t] = table]
  /\ lpc' = [lpc EXCEPT ![t] = "idle"]
  /\ imported' = (imported \/ t = "startup")

\* The loader's test of the cache
CheckCache(t) ==
  /\ lpc[t] = "check"
  /\ IF CacheHit(cache)
       THEN Returned(t, cache.table)
       ELSE /\ lpc' = [lpc EXCEPT ![t] = "scan"]
            /\ UNCHANGED <<got, imported>>
  /\ UNCHANGED <<reffile, cache, local, nbuilt, nctor, geoVars, bookVars, fnVars, batchVars>>

\* The loader selects and scans the reference file into its local table
ScanFile(t) ==
  /\ lpc[t] = "scan"
  /\ local' = [local EXCEPT ![t] = LoadTable(reffile)]
  /\ nbuilt' = nbuilt + 1
  /\ lpc' = [lpc EXCEPT ![t] = "store"]
  /\ UNCHANGED <<reffile, cache, got, nctor, imported, geoVars, bookVars, fnVars, batchVars>>

\* The loader assigns the global cache and returns it
StoreCache(t) ==
  /\ lpc[t] = "store"
  /\ cache' = [loaded |-> TRUE, table |-> local[t]]
  /\ Returned(t, local[t])
  /\ UNCHANGED <<reffile, local, nbuilt, nctor, geoVars, bookVars, fnVars, batchVars>>

NextLoad ==
  \E t \in Threads : Construct(t) \/ CheckCache(t) \/ ScanFile(t) \/ StoreCache(t)
SpecLoad == InitLoad /\ [][NextLoad]_vars

Building == {t \in Threads : lpc[t] \in {"scan", "store"}}
HasReturned(t) == nctor[t] > 0 /\ lpc[t] = "idle"

\* C7: under every interleaving of the constructions of one process the
\* reference file is scanned at most once, no two threads are inside the build
\* at the same time, and every construction that has returned received the
\* one cached table, also when that table is empty.
C7_TableBuiltOnce ==
  /\ nbuilt <= 1
  /\ Cardinality(Building) <= 1
  /\ \A t \in Threads :
       HasReturned(t) => (cache.loaded /\ got[t] = cache.table)
  /\ cache.loaded => (nbuilt = 1 /\ cache.table = LoadTable(reffile))

C7_Witness ==
  /\ reffile.state = "missing"
  /\ \A t \in Threads : HasReturned(t)
  /\ nctor["w1"] = MaxCtor /\ nctor["w2"] = MaxCtor
  /\ cache.loaded /\ cache.table = {} /\ nbuilt = 1

-----------------------------------------------------------------------------
(* Termination keys *)

\* ExcelTransformer.normalize_code
normalize_code(v) ==
  IF IsNone(v) THEN PyNone
  ELSE LET s == Strip(v.s)
           f == ParseFloat(s)
       IN  IF Lower(s) = <<"n", "a", "n">> \/ s = <<>> THEN PyNone
           ELSE IF DotAt(s) # 0 /\ f.k = "num" /\ f.whole
             THEN PyStr(NatToDigits(f.n))
           ELSE PyStr(s)

\* the tuple (provider_code, postal_code)
Key(code, postal) == [code |-> code, postal |-> postal]

\* a value used as an `if` condition: None and '' are false
Truthy(v) == ~IsNone(v) /\ v.s # <<>>

\* One row of a termination sheet that has a code column and a postal column
TermRowDual(ids, row) ==
  LET provider_code == normalize_code(row.code)
      postal_code == normalize_code(row.postal)
  IN  IF Truthy(provider_code) /\ Truthy(postal_code)
        THEN ids \cup {Key(provider_code, postal_code)}
      ELSE ids

\* One row of a termination sheet that has a code column only: row.addr_postal
\* is what extract_postal_code finds in the row's address columns (None when
\* there is no address column or no postal code in it).
TermRowCodeOnly(ids, row) ==
  LET provider_code == normalize_code(row.code)
      postal_code == IF Truthy(row.addr_postal)
                       THEN normalize_code(row.addr_postal) ELSE PyNone
  IN  IF ~Truthy(provider_code) THEN ids
      ELSE IF Truthy(postal_code) THEN ids \cup {Key(provider_code, postal_code)}
      ELSE ids \cup {Key(provider_code, PyNone)}

RECURSIVE TermRows(_, _, _)
TermRows(ids, sheet, rows) ==
  IF rows = <<>> THEN ids
  ELSE TermRows(IF sheet.postal_col THEN TermRowDual(ids, Head(rows))
                ELSE TermRowCodeOnly(ids, Head(rows)),
                sheet, Tail(rows))

\* One termination sheet: a sheet that cannot be read, or has no code column,
\* contributes nothing.
TermSheet(ids, sheet) ==
  IF ~sheet.readable \/ ~sheet.id_col THEN ids
  ELSE TermRows(ids, sheet, sheet.rows)

\* ExcelTransformer.extract_terminated_clinic_ids
RECURSIVE extract_terminated_clinic_ids(_, _)
extract_terminated_clinic_ids(ids, tsheets) ==
  IF tsheets = <<>> THEN ids
  ELSE extract_terminated_clinic_ids(TermSheet(ids, Head(tsheets)),
                                     Tail(tsheets))

-----------------------------------------------------------------------------
(* transform_sheet *)

\* (mutant) a sheet with a clinic_id column is accepted without clinic_name
ResolveColumnsLenient(sheet) ==
  IF "clinic_name" \in sheet.col_map \/ "clinic_id" \in sheet.col_map
    THEN [ok |-> TRUE, col_map |-> sheet.col_map, inferred |-> FALSE]
  ELSE IF "clinic_name" \in sheet.inferred
    THEN [ok |-> TRUE, col_map |-> sheet.col_map \cup sheet.inferred,
          inferred |-> TRUE]
  ELSE [ok |-> FALSE, col_map |-> sheet.col_map, inferred |-> TRUE]

\* The column mapping of a sheet: sheet.col_map is the set of canonical keys
\* map_columns binds from the header labels, sheet.inferred the set of keys
\* infer_columns_from_data binds from the column positions.
ResolveColumns(sheet) ==
  IF "clinic_name" \in sheet.col_map
    THEN [ok |-> TRUE, col_map |-> sheet.col_map, inferred |-> FALSE]
  ELSE IF "clinic_name" \in sheet.inferred
    THEN [ok |-> TRUE, col_map |-> sheet.col_map \cup sheet.inferred,
          inferred |-> TRUE]
  ELSE [ok |-> FALSE, col_map |-> sheet.col_map, inferred |-> TRUE]

\* valid_mask: the clinic name cell is present and not blank
ValidRow(row) == ~IsNone(row.name) /\ Strip(row.name.s) # <<>>
ValidRows(rows) == SelectSeq(rows, ValidRow)

\* smart_column_fallback(..., 'clinic_id'): AUTO_{i+1:04d}_{NAME[:10]}
Underscored(s) == [i \in 1..Len(s) |-> IF s[i] = " " THEN "_" ELSE s[i]]
Prefix(s, n) == SubSeq(s, 1, IF Len(s) < n THEN Len(s) ELSE n)
AutoCode(i, name) ==
  PyStr(<<"A", "U", "T", "O", "_">> \o ZeroPad(NatToDigits(i), 4) \o <<"_">>
        \o Prefix(Upper(Underscored(StrOf(name))), 10))

\* the cell of the dedicated postal-code column is usable
PostalCellUsable(v) ==
  ~IsNone(v) /\ Strip(v.s) \notin {<<>>, <<"n", "a", "n">>, <<"N", "o", "n", "e">>}

\* The PostalCode of a row: the dedicated column when it is mapped and holds a
\* value, else what extract_postal_code finds in the address (row.addr_postal).
PostalCodeOf(col_map, row) ==
  IF "postal_code" \in col_map /\ PostalCellUsable(row.postal)
    THEN PyStr(Strip(row.postal.s))
  ELSE row.addr_postal

\* is_terminated of one row (terminated_mask)
IsTerminated(col_map, tids, row) ==
  LET provider_code == normalize_code(row.code)
      postal_code == normalize_code(PostalCodeOf(col_map, row))
  IN  /\ Truthy(provider_code) /\ Truthy(postal_code)
      /\ \/ Key(provider_code, postal_code) \in tids
         \/ Key(provider_code, PyNone) \in tids

\* the termination filter runs at all
FilterApplies(col_map, tids) ==
  tids # {} /\ "clinic_id" \in col_map

Removed(col_map, tids, row) ==
  FilterApplies(col_map, tids) /\ IsTerminated(col_map, tids, row)

RECURSIVE AppendUnique(_, _)
AppendUnique(codes, more) ==
  IF more = <<>> THEN codes
  ELSE AppendUnique(IF \E i \in 1..Len(codes) : codes[i] = Head(more)
                      THEN codes ELSE Append(codes, Head(more)),
                    Tail(more))

\* The geocoding loop over the records: one geocode call per record on the
\* sheet's own service; `acc` carries the service's counters, the rows
\* geocoded so far and the number of remote requests.
Geocoded(acc, g) ==
  [ stats |-> g.stats,
    out |-> Append(acc.out, [lat |-> g.lat, lng |-> g.lng, method |-> g.method]),
    calls |-> acc.calls + 1,
    remote_calls |-> acc.remote_calls + g.calls,
    raised |-> g.raised ]

RECURSIVE GeocodeRows(_, _, _, _, _)
GeocodeRows(self, col_map, rows, remote, acc) ==
  IF rows = <<>> \/ acc.raised THEN acc
  ELSE GeocodeRows(self, col_map, Tail(rows), remote,
         Geocoded(acc, geocode([self EXCEPT !.geocode_stats = acc.stats],
                               PostalCodeOf(col_map, Head(rows)),
                               Head(rows).address, Head(rows).country, remote)))

\* a missing value of a float64 column, and pd.notna on a coordinate cell
NaN == "NaN"
NotNa(v) == v # NoCoord /\ v # NaN

\* df_transformed['Latitude'] = latitudes: a list that holds a float becomes
\* a float64 column, in which a None of the list is stored as NaN; a list of
\* None only stays an object column of None.
ColumnCell(values, j) ==
  IF values[j] # NoCoord THEN values[j]
  ELSE IF \E k \in DOMAIN values : values[k] # NoCoord THEN NaN
  ELSE NoCoord

\* (mutant) the successes are counted as the table hits only
PostalMatchesOnly(out) ==
  Len(SelectSeq(out, LAMBDA o : o.method = "postal_code"))

\* successful_geocodes = sum(1 for lat in latitudes if lat is not None)
SuccessfulCount(out) ==
  Len(SelectSeq(out, LAMBDA o : o.lat # NoCoord))

\* result['geocoding_stats'], computed from the lists of the geocoding loop
GeocodingStats(out) ==
  [ total_records |-> Len(out),
    successful_geocodes |-> SuccessfulCount(out),
    postal_code_matches |-> Len(SelectSeq(out, LAMBDA o : o.method = "postal_code")),
    address_geocodes |-> Len(SelectSeq(out, LAMBDA o : o.method = "address")),
    failed_geocodes |-> Len(out) - SuccessfulCount(out) ]

\* generate_google_maps_url on the cells of a row: `is not None` lets NaN through
generate_google_maps_url(lat, lng) ==
  IF lat # NoCoord /\ lng # NoCoord
    THEN <<"https://maps.google.com/?q=", lat, lng>>
  ELSE NoCoord

SheetFailure(sheet, why, phases, calls) ==
  [ success |-> FALSE, sheet |-> sheet.name, message |-> why, phases |-> phases,
    records |-> <<>>, removed |-> <<>>, records_processed |-> 0,
    terminated_clinics_filtered |-> 0, filtered_provider_codes |-> <<>>,
    geocode_calls |-> calls, stats |-> ZeroStats ]

\* the steps of transform_sheet that have run
MappingPhases(m) ==
  {"map_columns"} \cup (IF m.inferred THEN {"infer_columns"} ELSE {})
Phases(m, tids, g) ==
  MappingPhases(m) \cup {"row_filter", "normalize"}
    \cup (IF FilterApplies(m.col_map, tids) THEN {"termination_filter"} ELSE {})
    \cup (IF g.calls > 0 THEN {"geocode"} ELSE {})

\* df_transformed['Name'] = df_source[col_map['clinic_name']]: the column is
\* aligned on the index of df_transformed. With a clinic_id column the index
\* is that of the valid rows and the name is the row's own; without one the
\* first column is the list of generated codes, the index is 0..n-1, and
\* position i gets the name of the i-th row of the sheet, NaN when that row
\* was filtered out as invalid.
NameColumn(rows, col_map, i, row) ==
  IF "clinic_id" \in col_map THEN row.name
  ELSE IF ValidRow(rows[i]) THEN rows[i].name
  ELSE PyNone

\* one record of the transformed dataframe: row `row` was the i-th valid row
\* of the sheet's rows and is the j-th record; `method` is the entry of
\* geocoding_methods at its position
Record(rows, col_map, i, row, out, j) ==
  [ Code |-> IF "clinic_id" \in col_map THEN row.code ELSE AutoCode(i, row.name),
    Name |-> NameColumn(rows, col_map, i, row),
    PostalCode |-> PostalCodeOf(col_map, row),
    Country |-> row.country,
    Latitude |-> ColumnCell([k \in DOMAIN out |-> out[k].lat], j),
    Longitude |-> ColumnCell([k \in DOMAIN out |-> out[k].lng], j),
    method |-> out[j].method,
    GoogleMapURL |->
      generate_google_maps_url(ColumnCell([k \in DOMAIN out |-> out[k].lat], j),
                               ColumnCell([k \in DOMAIN out |-> out[k].lng], j)) ]

\* the result dictionary after the geocoding loop
SheetResult(sheet, tids, m, valid, removed, keptIdx, g) ==
  IF g.raised
    THEN SheetFailure(sheet, "geocode raised", Phases(m, tids, g), g.calls)
  ELSE [ success |-> TRUE, sheet |-> sheet.name, message |-> "ok",
         phases |-> Phases(m, tids, g),
         records |-> [j \in 1..Len(keptIdx) |->
                        Record(sheet.rows, m.col_map, keptIdx[j], valid[keptIdx[j]], g.out, j)],
         removed |-> removed,
         records_processed |-> Len(keptIdx),
         terminated_clinics_filtered |-> Len(valid) - Len(keptIdx),
         filtered_provider_codes |->
           AppendUnique(<<>>,
             [j \in 1..Len(SelectSeq(removed, LAMBDA x : x)) |->
                normalize_code(
                  valid[SelectSeq([i \in 1..Len(valid) |-> i],
                                  LAMBDA i : removed[i])[j]].code).s]),
         geocoding_stats |-> GeocodingStats(g.out),
         geocode_calls |-> g.calls,
         stats |-> g.stats ]

\* the rows left by the termination filter are geocoded
AfterTerminationFilter(sheet, tids, self, remote, m, valid, removed, keptIdx) ==
  SheetResult(sheet, tids, m, valid, removed, keptIdx,
    GeocodeRows(self, m.col_map, [j \in 1..Len(keptIdx) |-> valid[keptIdx[j]]],
                remote,
                [stats |-> ZeroStats, out |-> <<>>, calls |-> 0,
                 remote_calls |-> 0, raised |-> FALSE]))

\* the termination filter over the valid rows
AfterRowFilter(sheet, tids, self, remote, m, valid, removed) ==
  AfterTerminationFilter(sheet, tids, self, remote, m, valid, removed,
    SelectSeq([i \in 1..Len(valid) |-> i], LAMBDA i : ~removed[i]))

\* the valid rows of a sheet whose columns were resolved
AfterColumnMapping(sheet, tids, self, remote, m, valid) ==
  AfterRowFilter(sheet, tids, self, remote, m, valid,
    [i \in 1..Len(valid) |-> Removed(m.col_map, tids, valid[i])])

\* column mapping: a sheet without clinic_name fails here
MapColumns(sheet, tids, self, remote, m) ==
  IF ~m.ok
    THEN SheetFailure(sheet, "missing required 'clinic name' column",
                      MappingPhases(m), 0)
  ELSE AfterColumnMapping(sheet, tids, self, remote, m, ValidRows(sheet.rows))

\* ExcelTransformer.transform_sheet
transform_sheet(sheet, tids, service, remote) ==
  MapColumns(sheet, tids, [service EXCEPT !.geocode_stats = ZeroStats], remote,
             ResolveColumns(sheet))

-----------------------------------------------------------------------------
(* The sheets of the model *)

SeqsUpTo(S, n) == UNION {[1..k -> S] : k \in 0..n}

Str2(a, b) == PyStr(<<a, b>>)
Code40088 == PyStr(<<"4", "0", "0", "8", "8">>)
Code40088f == PyStr(<<"4", "0", "0", "8", "8", ".", "0">>)
Code50001 == PyStr(<<"5", "0", "0", "0", "1">>)
Code70001 == PyStr(<<"7", "0", "0", "0", "1">>)
Postal520123 == Chars6("5", "2", "0", "1", "2", "3")
Postal520123f == PyStr(<<"5", "2", "0", "1", "2", "3", ".", "0">>)
Postal520123s == PyStr(<<" ", "5", "2", "0", "1", "2", "3">>)
Postal520999 == Chars6("5", "2", "0", "9", "9", "9")
Postal81300 == PyStr(<<"8", "1", "3", "0", "0">>)
SomeAddress == PyStr(<<"1", " ", "R", "d">>)

PanelRow(name, code, postal, addr_postal, country) ==
  [ name |-> name, code |-> code, postal |-> postal, addr_postal |-> addr_postal,
    address |-> SomeAddress, country |-> country ]
PanelRowLib ==
  { PanelRow(Str2("A", "1"), Code40088f, Postal520123s, PyNone, "SINGAPORE"),
    PanelRow(Str2("A", "2"), Code40088, Postal520999, PyNone, "SINGAPORE"),
    PanelRow(Str2("A", "3"), Code40088, PyNone, PyNone, "SINGAPORE"),
    PanelRow(Str2("A", "4"), Code40088, PyNone, Postal520123, "SINGAPORE"),
    PanelRow(Str2("B", "1"), Code50001, Postal520123f, PyNone, "SINGAPORE"),
    PanelRow(Str2("C", "1"), PyNone, Postal520123, PyNone, "SINGAPORE"),
    PanelRow(Str2(" ", " "), Code40088, Postal520123, PyNone, "SINGAPORE"),
    PanelRow(Str2("M", "1"), Code70001, Postal81300, PyNone, "MALAYSIA") }

InferredKeys == {"region", "area", "clinic_id", "clinic_name"}
\* <<keys bound by map_columns, keys bound by infer_columns_from_data>>
ColumnOutcomes ==
  { <<{"clinic_name"}, {}>>,
    <<{"clinic_name", "clinic_id"}, {}>>,
    <<{"clinic_name", "postal_code"}, {}>>,
    <<{"clinic_name", "clinic_id", "postal_code"}, {}>>,
    <<{"postal_code"}, InferredKeys>>,
    <<{"clinic_id", "postal_code"}, {}>>,
    <<{}, {}>> }

PanelSheets(n, name) ==
  { [name |-> name, col_map |-> c[1], inferred |-> c[2], rows |-> rs] :
      c \in ColumnOutcomes, rs \in SeqsUpTo(PanelRowLib, n) }

TermRow(code, postal, addr_postal) ==
  [code |-> code, postal |-> postal, addr_postal |-> addr_postal]
TermRowLib ==
  { TermRow(Code40088f, Postal520123f, Postal520123),
    TermRow(Code40088, PyNone, PyNone),
    TermRow(PyNone, Postal520123, PyNone) }
\* <<readable, has a code column, has a postal column>>
TermLayouts ==
  { <<FALSE, FALSE, FALSE>>, <<TRUE, FALSE, TRUE>>, <<TRUE, TRUE, TRUE>>,
    <<TRUE, TRUE, FALSE>> }
TermSheets ==
  { [readable |-> l[1], id_col |-> l[2], postal_col |-> l[3], rows |-> rs] :
      l \in TermLayouts, rs \in SeqsUpTo(TermRowLib, MaxTermRows) }
\* the termination sheets of a workbook, in workbook order
TermBooks == SeqsUpTo(TermSheets, MaxTerm)

\* The services a transform_sheet call constructs in a process whose
\* reference file was loaded: API disabled, enabled without a key, or enabled
\* with a key.
SheetServices ==
  { NewService(u, k, TRUE, SgTable) :
      u \in BOOLEAN, k \in BOOLEAN }

-----------------------------------------------------------------------------
(* SpecSheet: single calls of transform_sheet *)

InitSheet ==
  /\ wpc = "ready"
  /\ svc \in SheetServices
  /\ terminated_ids \in {extract_terminated_clinic_ids({}, ts) : ts \in TermBooks}
  /\ nextract = 1 /\ sheet_idx = 0 /\ termination_sheets = <<>>
  /\ cur = NoCur /\ results = <<>> /\ outcome = NoOutcome /\ runs = <<>>
  /\ call = NoCall /\ ncalls = 0
  /\ LoadIdle /\ FnIdle
  /\ BatchIdle

Transformed(sheet, index, remote) ==
  [ done |-> TRUE, sheet |-> sheet, index |-> index, remote |-> remote,
    tids |-> terminated_ids,
    result |-> transform_sheet(sheet, terminated_ids, svc, remote) ]

\* transform_sheet(input_path, sheet_name, terminated_ids, use_google_api)
CallTransformSheet ==
  /\ wpc = "ready"
  /\ \E sheet \in PanelSheets(MaxRows, "GP"), remote \in RemoteOutcomes :
       cur' = Transformed(sheet, 1, remote)
  /\ wpc' = "returned"
  /\ UNCHANGED <<svc, call, ncalls, loadVars, fnVars, batchVars, runs, terminated_ids, nextract,
                 termination_sheets,
                 sheet_idx, results, outcome>>

\* the caller drops the result
DropResult ==
  /\ wpc = "returned"
  /\ cur' = NoCur
  /\ wpc' = "ready"
  /\ UNCHANGED <<svc, call, ncalls, loadVars, fnVars, batchVars, runs, terminated_ids, nextract,
                 termination_sheets,
                 sheet_idx, results, outcome>>

NextSheet == CallTransformSheet \/ DropResult
SpecSheet == InitSheet /\ [][NextSheet]_vars

\* the valid rows of the sheet in cur, and the column mapping used
CurValid == ValidRows(cur.sheet.rows)
CurColMap == ResolveColumns(cur.sheet).col_map
\* the normalized (code, postal) pair of a row as the filter sees it
RowCode(row) ==
  IF "clinic_id" \in CurColMap THEN normalize_code(row.code) ELSE PyNone
RowPostal(row) == normalize_code(PostalCodeOf(CurColMap, row))
InTerminationSet(row) ==
  \/ Key(RowCode(row), RowPostal(row)) \in cur.tids
  \/ Key(RowCode(row), PyNone) \in cur.tids

\* C1 (as claimed): a row is removed iff its normalized (code, postal) pair or
\* its (code, None) pair is in the termination set, whatever the row's own
\* postal code is (including absent).
C1_RemovedIffInSet ==
  (cur.done /\ cur.result.success)
  => \A i \in 1..Len(CurValid) :
       cur.result.removed[i] <=> InTerminationSet(CurValid[i])

\* clinic_name was bound by map_columns or by infer_columns_from_data
NameResolved(sheet) ==
  "clinic_name" \in sheet.col_map \/ "clinic_name" \in sheet.inferred
\* the steps that follow column mapping
PastMapping == {"row_filter", "normalize", "termination_filter", "geocode"}

\* C10: transform_sheet proceeds past column mapping only if clinic_name is
\* resolved by map_columns or else by infer_columns_from_data; when it is not,
\* the result is a failure with a message, without records, and no row
\* filtering, normalization, termination filtering or geocode call happened.
C10_ClinicNameRequired ==
  cur.done
  => /\ (cur.result.phases \cap PastMapping # {}) => NameResolved(cur.sheet)
     /\ ("infer_columns" \in cur.result.phases)
          <=> ("clinic_name" \notin cur.sheet.col_map)
     /\ ~NameResolved(cur.sheet)
          => /\ ~cur.result.success
             /\ cur.result.message = "missing required 'clinic name' column"
             /\ cur.result.records = <<>>
             /\ cur.result.phases \cap PastMapping = {}
             /\ cur.result.geocode_calls = 0
             /\ cur.result.terminated_clinics_filtered = 0

C10_Witness ==
  /\ cur.done /\ ~NameResolved(cur.sheet)
  /\ "clinic_id" \in cur.sheet.col_map
  /\ Len(CurValid) = MaxRows
  /\ cur.tids # {}
  /\ ~cur.result.success

-----------------------------------------------------------------------------
(* SpecBook: one run of transform_excel_multi_sheet *)

InitBook ==
  /\ wpc = "start"
  /\ svc \in SheetServices
  /\ terminated_ids = {}
  /\ nextract = 0 /\ sheet_idx = 0 /\ termination_sheets = <<>>
  /\ cur = NoCur /\ results = <<>> /\ outcome = NoOutcome /\ runs = <<>>
  /\ call = NoCall /\ ncalls = 0
  /\ LoadIdle /\ FnIdle
  /\ BatchIdle

\* classify_sheets splits the workbook's sheet names
BookClassify ==
  /\ wpc = "start"
  /\ termination_sheets' \in TermBooks
  /\ wpc' = "classified"
  /\ UNCHANGED <<svc, call, ncalls, loadVars, fnVars, batchVars, runs, terminated_ids, nextract,
                 sheet_idx, cur, results, outcome>>

\* extract_terminated_clinic_ids over the termination sheets
BookExtract ==
  /\ wpc = "classified"
  /\ terminated_ids' = extract_terminated_clinic_ids({}, termination_sheets)
  /\ nextract' = nextract + 1
  /\ wpc' = "extracted"
  /\ UNCHANGED <<svc, call, ncalls, loadVars, fnVars, batchVars, runs, termination_sheets, sheet_idx,
                 cur, results, outcome>>

\* results = [], output_files = []: the loop is entered; termination_sheets
\* is not read again
BookEnterLoop ==
  /\ wpc = "extracted"
  /\ termination_sheets' = <<>>
  /\ wpc' = "loop"
  /\ UNCHANGED <<svc, call, ncalls, loadVars, fnVars, batchVars, runs, terminated_ids, nextract,
                 sheet_idx, cur, results, outcome>>

SheetName(i) == <<"panel", i>>

\* the loop takes the next panel sheet and calls transform_sheet on it
BookTransform ==
  /\ wpc = "loop"
  /\ sheet_idx < MaxPanel
  /\ \E sheet \in PanelSheets(MaxBookRows, SheetName(sheet_idx + 1)),
        remote \in RemoteOutcomes :
       cur' = Transformed(sheet, sheet_idx + 1, remote)
  /\ sheet_idx' = sheet_idx + 1
  /\ wpc' = "emit"
  /\ UNCHANGED <<svc, call, ncalls, loadVars, fnVars, batchVars, runs, terminated_ids, nextract,
                 termination_sheets,
                 results, outcome>>

CountryRecords(res, country) ==
  SelectSeq(res.records, LAMBDA r : r.Country = country)
HasMixedCountries(res) ==
  CountryRecords(res, "SINGAPORE") # <<>> /\ CountryRecords(res, "MALAYSIA") # <<>>

\* the result entries (and files) a successful sheet yields
SheetEntries(index, res) ==
  IF HasMixedCountries(res)
    THEN << [index |-> index, sheet_name |-> "SINGAPORE"],
            [index |-> index, sheet_name |-> "MALAYSIA"] >>
  ELSE << [index |-> index, sheet_name |-> res.sheet] >>

\* (mutant) a failed sheet is logged and skipped
AfterSheetFailureSkip(res) == [wpc |-> "loop", outcome |-> NoOutcome]

\* a failed sheet ends the run with the sheet's name and reason
AfterSheetFailure(res) ==
  [ wpc |-> "done",
    outcome |-> [kind |-> "sheet_failed", success |-> FALSE,
                 sheet |-> res.sheet, reason |-> res.message] ]

\* (mutant) the entries of the filtered clinics are dropped from the set
TidsConsumed(tids, res) ==
  {k \in tids : \A i \in 1..Len(res.filtered_provider_codes) :
                   res.filtered_provider_codes[i] # k.code.s}

\* the termination set after a sheet was transformed: it is only read
TidsAfterSheet(tids, res) == tids

\* the loop body after transform_sheet returned: write the sheet's files and
\* append its entries, or return the failure
BookEmit ==
  /\ wpc = "emit"
  /\ terminated_ids' = TidsAfterSheet(terminated_ids, cur.result)
  /\ IF cur.result.success
       THEN /\ results' = results \o SheetEntries(cur.index, cur.result)
            /\ cur' = NoCur
            /\ wpc' = "loop"
            /\ UNCHANGED outcome
       ELSE /\ wpc' = AfterSheetFailure(cur.result).wpc
            /\ outcome' = AfterSheetFailure(cur.result).outcome
            /\ UNCHANGED <<cur, results>>
  /\ UNCHANGED <<svc, call, ncalls, loadVars, fnVars, batchVars, runs, nextract, termination_sheets,
                 sheet_idx>>

\* the workbook has no further panel sheet: the summary is returned
BookFinish ==
  /\ wpc = "loop"
  /\ outcome' = IF results = <<>>
                  THEN [kind |-> "no_panel_sheets", success |-> FALSE]
                  ELSE [kind |-> "processed", success |-> TRUE,
                        sheets_processed |-> Len(results)]
  /\ wpc' = "done"
  /\ UNCHANGED <<svc, call, ncalls, loadVars, fnVars, batchVars, runs, terminated_ids, nextract,
                 termination_sheets,
                 sheet_idx, cur, results>>

NextBook ==
  BookClassify \/ BookExtract \/ BookEnterLoop \/ BookTransform \/ BookEmit
    \/ BookFinish
SpecBook == InitBook /\ [][NextBook]_vars

SheetFailed == cur.done /\ ~cur.result.success

\* C8: as soon as transform_sheet fails for a panel sheet the run ends with a
\* failure naming that sheet and its reason; no later panel sheet is taken
\* and nothing of the failed or a later sheet is written.
C8_FailFast ==
  /\ (SheetFailed /\ wpc # "emit")
       => /\ wpc = "done"
          /\ outcome.kind = "sheet_failed" /\ ~outcome.success
          /\ outcome.sheet = cur.sheet.name
          /\ outcome.reason = cur.result.message
          /\ sheet_idx = cur.index
          /\ \A i \in 1..Len(results) : results[i].index < cur.index
  /\ (outcome.kind = "sheet_failed") => SheetFailed

C8_Witness ==
  /\ outcome.kind = "sheet_failed"
  /\ Len(results) = 1
  /\ sheet_idx = 2 /\ cur.index = 2

\* the keys one termination sheet contributes on its own
SheetKeys(sheet) == TermSheet({}, sheet)
Built == wpc \notin {"start", "classified"}

-----------------------------------------------------------------------------
(* SpecCode: applications of normalize_code *)

\* blanks put around a cell's text
Padded(s) == { s, <<" ">> \o s, s \o <<" ">>, <<" ">> \o s \o <<" ">> }

\* Cell texts a provider-code or postal-code cell can hold: str(value) of a
\* text cell or of a number pandas read as a float.
CodeTexts ==
  { <<>>,
    <<"n", "a", "n">>, <<"N", "a", "N">>, <<"N", "A", "N">>,
    <<"n", "o", "n", "e">>, <<"N", "o", "n", "e">>, <<"N", "O", "N", "E">>,
    <<"4", "0", "0", "8", "8">>,
    <<"4", "0", "0", "8", "8", ".", "0">>,
    <<"4", "0", "0", "8", "8", ".", "0", "0">>,
    <<"4", "0", "0", "8", "8", ".", "5">>,
    <<"5", "2", "0", "1", "2", "3", ".", "0">>,
    <<"0", ".", "0">>, <<".", "0">>, <<"5", ".">>, <<".">>,
    <<"1", ".", "0", ".", "0">>,
    <<"A", "1", ".", "0">>, <<"A", "1">>, <<"G", "P", ".", "0", "1">>,
    <<"i", "n", "f">>, <<"n", "a", "n", ".", "0">>,
    <<"S", "4", "0", "0", "8", "8">>, <<"4", "0", " ", "8", "8">>,
    <<"0">>, <<"7", ".", "2", "5">> }
CodeInputs == {PyNone} \cup {PyStr(s) : s \in UNION {Padded(c) : c \in CodeTexts}}

InitCode ==
  /\ fn \in {Pending(v) : v \in CodeInputs}
  /\ GeoIdle /\ LoadIdle /\ BookIdle
  /\ BatchIdle

\* normalize_code(value), and normalize_code of its result
NormalizeCode ==
  /\ fn.name = "pending"
  /\ \E r \in {normalize_code(fn.arg)} :
       fn' = [name |-> "normalize_code", arg |-> fn.arg, res |-> r,
              again |-> normalize_code(r)]
  /\ UNCHANGED <<geoVars, loadVars, bookVars, batchVars>>

NextCode == NormalizeCode
SpecCode == InitCode /\ [][NextCode]_vars

\* the stripped text of the argument of the last application
ArgText == Strip(fn.arg.s)
\* digits followed by '.0'
TrailingDotZero(s) ==
  /\ Len(s) >= 3
  /\ SubSeq(s, Len(s) - 1, Len(s)) = <<".", "0">>
  /\ AllDigits(SubSeq(s, 1, Len(s) - 2))

\* C20 (as claimed): normalize_code gives None for a missing value and for
\* blank, 'nan' and 'none' text in any letter case; gives the code without
\* its trailing '.0' for a numeric-looking code; gives the stripped text for
\* every other value; and applying it twice equals applying it once.
C20_NormalizeCode ==
  (fn.name = "normalize_code")
  => /\ fn.again = fn.res
     /\ IF IsNone(fn.arg) THEN fn.res = PyNone
        ELSE IF Lower(ArgText) \in {<<>>, <<"n", "a", "n">>, <<"n", "o", "n", "e">>}
          THEN fn.res = PyNone
        ELSE IF TrailingDotZero(ArgText)
          THEN fn.res = PyStr(NatToDigits(DigitsToNat(
                                SubSeq(ArgText, 1, Len(ArgText) - 2))))
        ELSE fn.res = PyStr(ArgText)

-----------------------------------------------------------------------------
(* SpecNames: classify_sheets on the sheet names of a workbook *)

\* sheet names handed to one classify_sheets call
MaxNames == 2

\* `sub in s`
Contains(s, sub) ==
  \E i \in 1..(Len(s) - Len(sub) + 1) : SubSeq(s, i, i + Len(sub) - 1) = sub

TerminationTokens ==
  << <<"t", "e", "r", "m", "i", "n", "a", "t">>,
     <<"r", "e", "m", "o", "v">>,
     <<"c", "a", "n", "c", "e", "l">>,
     <<"d", "e", "l", "i", "s", "t">> >>
PanelTokens ==
  << <<"g", "p">>,
     <<"t", "c", "m">>,
     <<"d", "e", "n", "t", "a", "l">>,
     <<"c", "l", "i", "n", "i", "c">>,
     <<"p", "a", "n", "e", "l">>,
     <<"s", "p", " ", "l", "i", "s", "t">>,
     <<"s", "p", " ", "c", "l", "i", "n", "i", "c">>,
     <<"s", "p", "e", "c", "i", "a", "l", "i", "s", "t">>,
     <<"s", "g">>,
     <<"m", "y">>,
     <<"m", "s", "i", "a">>,
     <<"m", "a", "l", "a", "y", "s", "i", "a">>,
     <<"s", "i", "n", "g", "a", "p", "o", "r", "e">>,
     <<"b", "l", "u", "e">>,
     <<"r", "e", "d">>,
     <<"f", "l", "e", "x", "i">>,
     <<"a", "i", "a">>,
     <<"m", "e", "d", "i", "c", "a", "l">>,
     <<"h", "e", "a", "l", "t", "h">>,
     <<"d", "o", "c", "t", "o", "r">>,
     <<"a", "l", "l", "i", "a", "n", "c", "e">>,
     <<"t", "o", "k", "i", "o">>,
     <<"m", "a", "r", "i", "n", "e">>,
     <<"p", "r", "o", "v", "i", "d", "e", "r">> >>

\* any(token in sheet_lower for token in tokens)
AnyToken(sheet_lower, tokens) ==
  \E k \in 1..Len(tokens) : Contains(sheet_lower, tokens[k])

\* (mutant) the panel tokens are tried before the termination tokens
ClassifyOnePanelFirst(lists, sheet) ==
  IF AnyToken(Lower(sheet), PanelTokens)
    THEN [lists EXCEPT !.panel_sheets = Append(@, sheet)]
  ELSE IF AnyToken(Lower(sheet), TerminationTokens)
    THEN [lists EXCEPT !.termination_sheets = Append(@, sheet)]
  ELSE lists

\* the body of the loop over sheet_names
ClassifyOne(lists, sheet) ==
  IF AnyToken(Lower(sheet), TerminationTokens)
    THEN [lists EXCEPT !.termination_sheets = Append(@, sheet)]
  ELSE IF AnyToken(Lower(sheet), PanelTokens)
    THEN [lists EXCEPT !.panel_sheets = Append(@, sheet)]
  ELSE lists

RECURSIVE ClassifyLoop(_, _)
ClassifyLoop(lists, sheet_names) ==
  IF sheet_names = <<>> THEN lists
  ELSE ClassifyLoop(ClassifyOne(lists, Head(sheet_names)), Tail(sheet_names))

\* ExcelTransformer.classify_sheets
classify_sheets(sheet_names) ==
  ClassifyLoop([panel_sheets |-> <<>>, termination_sheets |-> <<>>], sheet_names)

SheetNameLib ==
  { <<"G", "P">>,
    <<"T", "C", "M", " ", "P", "a", "n", "e", "l">>,
    <<"T", "e", "r", "m", "i", "n", "a", "t", "e", "d", " ", "G", "P">>,
    <<"R", "e", "m", "o", "v", "e", "d">>,
    <<"c", "a", "n", "c", "e", "l", "l", "e", "d", " ", "c", "l", "i", "n", "i", "c", "s">>,
    <<"D", "E", "L", "I", "S", "T", "E", "D">>,
    <<"S", "u", "m", "m", "a", "r", "y">>,
    <<"S", "h", "e", "e", "t", "1">>,
    <<"M", "y", " ", "L", "i", "s", "t">>,
    <<"N", "o", "t", "e", "s">>,
    <<"T", "e", "r", "m", "i", "n", "a", "t", "i", "o", "n">>,
    <<"S", "P", " ", "C", "l", "i", "n", "i", "c">> }
SheetNameLists == SeqsUpTo(SheetNameLib, MaxNames)

InitNames ==
  /\ fn \in {Pending(sheet_names) : sheet_names \in SheetNameLists}
  /\ GeoIdle /\ LoadIdle /\ BookIdle
  /\ BatchIdle

ClassifySheets ==
  /\ fn.name = "pending"
  /\ fn' = [name |-> "classify_sheets", arg |-> fn.arg,
            res |-> classify_sheets(fn.arg)]
  /\ UNCHANGED <<geoVars, loadVars, bookVars, batchVars>>

NextNames == ClassifySheets
SpecNames == InitNames /\ [][NextNames]_vars

\* the name holds a token of the termination lexicon / of the panel lexicon
HasTerminationToken(sheet) ==
  \E k \in DOMAIN TerminationTokens : Contains(Lower(sheet), TerminationTokens[k])
HasPanelToken(sheet) ==
  \E k \in DOMAIN PanelTokens : Contains(Lower(sheet), PanelTokens[k])
Elems(s) == {s[i] : i \in DOMAIN s}

\* C12: a sheet is in the termination list iff its lower-cased name holds a
\* termination token (also when it holds a panel token too); any other sheet
\* is in the panel list iff its name holds a panel token; the remaining sheets
\* are in neither list; the lists are disjoint and keep the input order.
C12_ClassifySheets ==
  (fn.name = "classify_sheets")
  => /\ fn.res.termination_sheets = SelectSeq(fn.arg, HasTerminationToken)
     /\ fn.res.panel_sheets =
          SelectSeq(fn.arg, LAMBDA n : ~HasTerminationToken(n) /\ HasPanelToken(n))
     /\ Elems(fn.res.termination_sheets) \cap Elems(fn.res.panel_sheets) = {}
     /\ \A i \in DOMAIN fn.arg :
          (~HasTerminationToken(fn.arg[i]) /\ ~HasPanelToken(fn.arg[i]))
            => fn.arg[i] \notin
                 Elems(fn.res.termination_sheets) \cup Elems(fn.res.panel_sheets)

C12_Witness ==
  /\ fn.name = "classify_sheets"
  /\ Len(fn.arg) = 2
  /\ HasTerminationToken(fn.arg[1]) /\ HasPanelToken(fn.arg[1])
  /\ ~HasTerminationToken(fn.arg[2]) /\ HasPanelToken(fn.arg[2])
  /\ fn.res.termination_sheets = <<fn.arg[1]>>
  /\ fn.res.panel_sheets = <<fn.arg[2]>>

-----------------------------------------------------------------------------
(* SpecHeader: find_header_row on the raw rows of a sheet *)

\* raw rows of a sheet scanned for its header
MaxSheetRows == 4

\* ' '.join(row_values)
RECURSIVE JoinCells(_)
JoinCells(texts) ==
  IF texts = <<>> THEN <<>>
  ELSE IF Len(texts) = 1 THEN Head(texts)
  ELSE Head(texts) \o <<" ">> \o JoinCells(Tail(texts))

\* row_values = [str(val) for val in row.values if pd.notna(val)]
RowValues(row) ==
  [i \in 1..Len(SelectSeq(row, LAMBDA c : ~IsNone(c))) |->
     SelectSeq(row, LAMBDA c : ~IsNone(c))[i].s]
RowText(row) == Lower(JoinCells(RowValues(row)))

\* header_patterns: the keywords a pattern requires in row_text and the least
\* len(row_values) it requires (0 when it has no length condition)
HeaderPatterns ==
  << [tokens |-> {<<"s", "/", "n">>, <<"c", "l", "i", "n", "i", "c">>, <<"i", "d">>}, min |-> 0],
     [tokens |-> {<<"s", "/", "n">>, <<"s", "p", "e", "c", "i", "a", "l", "t", "y">>, <<"s", "p", " ", "c", "o", "d", "e">>, <<"d", "o", "c", "t", "o", "r">>}, min |-> 0],
     [tokens |-> {<<"s", "/", "n">>, <<"s", "p", " ", "c", "o", "d", "e">>, <<"c", "l", "i", "n", "i", "c", " ", "n", "a", "m", "e">>, <<"a", "d", "d", "r", "e", "s", "s", "1">>}, min |-> 0],
     [tokens |-> {<<"s", "/", "n">>, <<"c", "l", "i", "n", "i", "c", " ", "c", "o", "d", "e">>, <<"c", "i", "t", "y">>, <<"s", "t", "a", "t", "e">>}, min |-> 0],
     [tokens |-> {<<"s", "/", "n">>, <<"c", "l", "i", "n", "i", "c", " ", "n", "a", "m", "e">>, <<"a", "d", "d", "r", "e", "s", "s", "1">>}, min |-> 0],
     [tokens |-> {<<"s", "/", "n">>, <<"c", "l", "i", "n", "i", "c">>, <<"t", "e", "l">>, <<"o", "p", "e", "r", "a", "t", "i", "o", "n">>}, min |-> 0],
     [tokens |-> {<<"s", "/", "n">>, <<"r", "e", "g", "i", "o", "n">>, <<"a", "r", "e", "a">>}, min |-> 0],
     [tokens |-> {<<"s", "/", "n">>, <<"c", "l", "i", "n", "i", "c">>, <<"n", "a", "m", "e">>}, min |-> 0],
     [tokens |-> {<<"n", "o", ".">>, <<"c", "l", "i", "n", "i", "c">>, <<"n", "a", "m", "e">>}, min |-> 0],
     [tokens |-> {<<"n", "o", ".">>, <<"r", "e", "g", "i", "o", "n">>, <<"a", "r", "e", "a">>}, min |-> 0],
     [tokens |-> {<<"s", "/", "n">>, <<"c", "l", "i", "n", "i", "c">>, <<"p", "o", "s", "t", "a", "l">>}, min |-> 0],
     [tokens |-> {<<"m", "a", "s", "t", "e", "r", " ", "c", "o", "d", "e">>, <<"c", "l", "i", "n", "i", "c">>, <<"p", "o", "s", "t", "a", "l">>}, min |-> 0],
     [tokens |-> {<<"m", "a", "s", "t", "e", "r", " ", "c", "o", "d", "e">>, <<"p", "h", "y", "s", "i", "c", "i", "a", "n">>, <<"c", "h", "a", "r", "g", "e">>}, min |-> 0],
     [tokens |-> {<<"m", "a", "s", "t", "e", "r", " ", "c", "o", "d", "e">>, <<"t", "e", "l">>}, min |-> 8],
     [tokens |-> {<<"c", "l", "i", "n", "i", "c">>, <<"p", "o", "s", "t", "a", "l">>, <<"t", "e", "l">>}, min |-> 0],
     [tokens |-> {<<"c", "o", "d", "e">>, <<"c", "l", "i", "n", "i", "c">>, <<"a", "d", "d", "r", "e", "s", "s">>}, min |-> 0],
     [tokens |-> {<<"p", "r", "o", "v", "i", "d", "e", "r">>, <<"n", "a", "m", "e">>}, min |-> 5],
     [tokens |-> {<<"r", "e", "g", "i", "o", "n">>, <<"c", "l", "i", "n", "i", "c">>}, min |-> 5],
     [tokens |-> {<<"c", "i", "t", "y">>, <<"c", "l", "i", "n", "i", "c">>, <<"t", "e", "l">>}, min |-> 0],
     [tokens |-> {<<"s", "t", "a", "t", "e">>, <<"c", "l", "i", "n", "i", "c", " ", "n", "a", "m", "e">>}, min |-> 6] >>

PatternHolds(p, row_text, nvalues) ==
  /\ \A tok \in p.tokens : Contains(row_text, tok)
  /\ nvalues >= p.min

\* any(pattern for pattern in header_patterns)
AnyPattern(row) ==
  \E k \in 1..Len(HeaderPatterns) :
    PatternHolds(HeaderPatterns[k], RowText(row), Len(RowValues(row)))

\* non_null_count >= 5
MinDataCells == 5
NonNullCount(row) ==
  Len(SelectSeq(row, LAMBDA c : ~IsNone(c) /\ Strip(c.s) # <<>>))
Substantial(row) == NonNullCount(row) >= MinDataCells

\* the final fallback `return 4`
DefaultHeaderRow == 4
NoIndex == -1

\* a loop `for idx, row in df_raw.iterrows(): if test(row): return idx`,
\* started at index idx; NoIndex when the loop ends without returning
RECURSIVE FirstRow(_, _, _)
FirstRow(rows, Test(_), idx) ==
  IF rows = <<>> THEN NoIndex
  ELSE IF Test(Head(rows)) THEN idx
  ELSE FirstRow(Tail(rows), Test, idx + 1)

\* (mutant) one pass: the first row that matches a pattern or has 5 cells
find_header_row_one_pass(rows) ==
  IF FirstRow(rows, LAMBDA r : AnyPattern(r) \/ Substantial(r), 0) # NoIndex
    THEN FirstRow(rows, LAMBDA r : AnyPattern(r) \/ Substantial(r), 0)
  ELSE DefaultHeaderRow

\* ExcelTransformer.find_header_row
find_header_row(rows) ==
  IF FirstRow(rows, AnyPattern, 0) # NoIndex THEN FirstRow(rows, AnyPattern, 0)
  ELSE IF FirstRow(rows, Substantial, 0) # NoIndex
    THEN FirstRow(rows, Substantial, 0)
  ELSE DefaultHeaderRow

RawRowLib ==
  { <<PyStr(<<"S", "/", "N">>), PyStr(<<"C", "l", "i", "n", "i", "c", " ", "I", "D">>), PyStr(<<"R", "e", "g", "i", "o", "n">>), PyStr(<<"A", "r", "e", "a">>)>>,
    <<PyStr(<<"P", "a", "n", "e", "l">>), PyStr(<<"L", "i", "s", "t">>), PyStr(<<"2", "0", "2", "4">>), PyStr(<<"v", "1">>), PyStr(<<"x">>)>>,
    <<PyStr(<<"T", "i", "t", "l", "e">>), PyNone, PyNone, PyNone>>,
    <<PyNone, PyNone, PyNone, PyNone>>,
    <<PyStr(<<"P", "r", "o", "v", "i", "d", "e", "r">>), PyStr(<<"N", "a", "m", "e">>), PyStr(<<" ">>), PyStr(<<" ">>), PyStr(<<"T", "e", "l">>)>>,
    <<PyStr(<<"P", "r", "o", "v", "i", "d", "e", "r">>), PyStr(<<"N", "a", "m", "e">>), PyNone, PyStr(<<"T", "e", "l">>)>> }
HeaderRow == <<PyStr(<<"S", "/", "N">>), PyStr(<<"C", "l", "i", "n", "i", "c", " ", "I", "D">>), PyStr(<<"R", "e", "g", "i", "o", "n">>), PyStr(<<"A", "r", "e", "a">>)>>
RawSheets == SeqsUpTo(RawRowLib, MaxSheetRows)

InitHeader ==
  /\ fn \in {Pending(rows) : rows \in RawSheets}
  /\ GeoIdle /\ LoadIdle /\ BookIdle
  /\ BatchIdle

FindHeaderRow ==
  /\ fn.name = "pending"
  /\ fn' = [name |-> "find_header_row", arg |-> fn.arg,
            res |-> find_header_row(fn.arg)]
  /\ UNCHANGED <<geoVars, loadVars, bookVars, batchVars>>

NextHeader == FindHeaderRow
SpecHeader == InitHeader /\ [][NextHeader]_vars

\* the 0-based indices of the rows that satisfy a keyword pattern / that
\* hold at least 5 non-empty cells
PatternRows(rows) == {i - 1 : i \in {j \in DOMAIN rows : AnyPattern(rows[j])}}
SubstantialRows(rows) == {i - 1 : i \in {j \in DOMAIN rows : Substantial(rows[j])}}
Least(S) == CHOOSE x \in S : \A y \in S : x <= y

\* C13: find_header_row returns the lowest index of a row satisfying a keyword
\* pattern, even when an earlier row has 5 or more non-empty cells; when no row
\* satisfies a pattern, the first row with at least 5 non-empty cells; and
\* when there is none, the default index 4.
C13_FindHeaderRow ==
  (fn.name = "find_header_row")
  => fn.res = IF PatternRows(fn.arg) # {} THEN Least(PatternRows(fn.arg))
              ELSE IF SubstantialRows(fn.arg) # {} THEN Least(SubstantialRows(fn.arg))
              ELSE 4

C13_Witness ==
  /\ fn.name = "find_header_row"
  /\ Len(fn.arg) = 4
  /\ fn.arg[4] = HeaderRow
  /\ PatternRows(fn.arg) = {3}
  /\ 0 \in SubstantialRows(fn.arg)
  /\ fn.res = 3

-----------------------------------------------------------------------------
(* SpecColumns: map_columns on the column labels of a sheet *)

\* columns of a sheet handed to map_columns
MaxCols == 3

\* re.sub(r'\s+', ' ', text)
RECURSIVE CollapseSpaces(_)
CollapseSpaces(s) ==
  IF Len(s) < 2 THEN s
  ELSE IF IsSpace(s[1]) /\ IsSpace(s[2]) THEN CollapseSpaces(Tail(s))
  ELSE <<s[1]>> \o CollapseSpaces(Tail(s))

\* col_clean
CleanLabel(col) == CollapseSpaces(Strip(Lower(col)))

\* mappings: the canonical keys with their ordered literal labels
Mappings ==
  << [key |-> "clinic_id",
       patterns |-> << <<"i", "h", "p", " ", "c", "l", "i", "n", "i", "c", " ", "i", "d">>,
                     <<"p", "r", "o", "v", "i", "d", "e", "r", " ", "c", "o", "d", "e">>,
                     <<"c", "l", "i", "n", "i", "c", " ", "i", "d">>,
                     <<"i", "d">>,
                     <<"c", "l", "i", "n", "i", "c", " ", "c", "o", "d", "e">>,
                     <<"p", "r", "o", "v", "i", "d", "e", "r", " ", "i", "d">>,
                     <<"c", "l", "i", "n", "i", "c", " ", "i", "d", "e", "n", "t", "i", "f", "i", "e", "r">>,
                     <<"c", "o", "d", "e">>,
                     <<"c", "l", "i", "n", "i", "c", " ", "n", "o">>,
                     <<"c", "l", "i", "n", "i", "c", " ", "n", "u", "m", "b", "e", "r">>,
                     <<"m", "a", "s", "t", "e", "r", " ", "c", "o", "d", "e">>,
                     <<"m", "a", "s", "t", "e", "r", " ", "i", "d">>,
                     <<"s", "p", " ", "c", "o", "d", "e">>,
                     <<"s", "p", " ", "i", "d">> >>],
     [key |-> "clinic_name",
       patterns |-> << <<"c", "l", "i", "n", "i", "c", " ", "n", "a", "m", "e">>,
                     <<"n", "a", "m", "e">>,
                     <<"c", "l", "i", "n", "i", "c">>,
                     <<"p", "r", "o", "v", "i", "d", "e", "r", " ", "n", "a", "m", "e">>,
                     <<"f", "a", "c", "i", "l", "i", "t", "y", " ", "n", "a", "m", "e">>,
                     <<"m", "e", "d", "i", "c", "a", "l", " ", "c", "e", "n", "t", "e", "r">>,
                     <<"m", "e", "d", "i", "c", "a", "l", " ", "c", "e", "n", "t", "r", "e">>,
                     <<"c", "e", "n", "t", "e", "r", " ", "n", "a", "m", "e">>,
                     <<"c", "e", "n", "t", "r", "e", " ", "n", "a", "m", "e">> >>],
     [key |-> "region",
       patterns |-> << <<"r", "e", "g", "i", "o", "n">>,
                     <<"z", "o", "n", "e">>,
                     <<"d", "i", "s", "t", "r", "i", "c", "t">>,
                     <<"s", "e", "c", "t", "o", "r">>,
                     <<"t", "e", "r", "r", "i", "t", "o", "r", "y">>,
                     <<"l", "o", "c", "a", "t", "i", "o", "n">>,
                     <<"g", "e", "o", "g", "r", "a", "p", "h", "i", "c", "a", "l", " ", "r", "e", "g", "i", "o", "n">>,
                     <<"g", "e", "o", " ", "r", "e", "g", "i", "o", "n">>,
                     <<"s", "t", "a", "t", "e">>,
                     <<"p", "r", "o", "v", "i", "n", "c", "e">>,
                     <<"c", "i", "t", "y">> >>],
     [key |-> "area",
       patterns |-> << <<"a", "r", "e", "a">>,
                     <<"e", "s", "t", "a", "t", "e">>,
                     <<"n", "e", "i", "g", "h", "b", "o", "u", "r", "h", "o", "o", "d">>,
                     <<"n", "e", "i", "g", "h", "b", "o", "r", "h", "o", "o", "d">>,
                     <<"l", "o", "c", "a", "l", "i", "t", "y">>,
                     <<"p", "r", "e", "c", "i", "n", "c", "t">>,
                     <<"t", "o", "w", "n">>,
                     <<"s", "u", "b", "u", "r", "b">>,
                     <<"c", "o", "m", "m", "u", "n", "i", "t", "y">>,
                     <<"d", "i", "s", "t", "r", "i", "c", "t", " ", "a", "r", "e", "a">>,
                     <<"s", "t", "a", "t", "e">> >>],
     [key |-> "address",
       patterns |-> << <<"a", "d", "d", "r", "e", "s", "s">>,
                     <<"f", "u", "l", "l", " ", "a", "d", "d", "r", "e", "s", "s">>,
                     <<"c", "o", "m", "p", "l", "e", "t", "e", " ", "a", "d", "d", "r", "e", "s", "s">>,
                     <<"l", "o", "c", "a", "t", "i", "o", "n", " ", "a", "d", "d", "r", "e", "s", "s">>,
                     <<"p", "h", "y", "s", "i", "c", "a", "l", " ", "a", "d", "d", "r", "e", "s", "s">>,
                     <<"s", "t", "r", "e", "e", "t", " ", "a", "d", "d", "r", "e", "s", "s">>,
                     <<"m", "a", "i", "l", "i", "n", "g", " ", "a", "d", "d", "r", "e", "s", "s">>,
                     <<"a", "d", "d", "r", "e", "s", "s", "1">> >>],
     [key |-> "telephone",
       patterns |-> << <<"t", "e", "l", " ", "n", "o", ".">>,
                     <<"t", "e", "l">>,
                     <<"p", "h", "o", "n", "e">>,
                     <<"t", "e", "l", "e", "p", "h", "o", "n", "e">>,
                     <<"c", "o", "n", "t", "a", "c", "t">>,
                     <<"c", "o", "n", "t", "a", "c", "t", " ", "n", "o">>,
                     <<"c", "o", "n", "t", "a", "c", "t", " ", "n", "u", "m", "b", "e", "r">>,
                     <<"p", "h", "o", "n", "e", " ", "n", "u", "m", "b", "e", "r">>,
                     <<"t", "e", "l", " ", "n", "u", "m", "b", "e", "r">>,
                     <<"m", "o", "b", "i", "l", "e">>,
                     <<"c", "o", "n", "t", "a", "c", "t", " ", "n", "o", ".">>,
                     <<"t", "e", "l", " ", "n", "o">> >>],
     [key |-> "remarks",
       patterns |-> << <<"r", "e", "m", "a", "r", "k", "s">>,
                     <<"c", "o", "m", "m", "e", "n", "t">>,
                     <<"n", "o", "t", "e">>,
                     <<"r", "e", "m", "a", "r", "k">>,
                     <<"c", "o", "m", "m", "e", "n", "t", "s">>,
                     <<"n", "o", "t", "e", "s">>,
                     <<"a", "d", "d", "i", "t", "i", "o", "n", "a", "l", " ", "i", "n", "f", "o">>,
                     <<"s", "p", "e", "c", "i", "a", "l", " ", "n", "o", "t", "e", "s">>,
                     <<"o", "b", "s", "e", "r", "v", "a", "t", "i", "o", "n">>,
                     <<"m", "e", "m", "o">> >>],
     [key |-> "operating_hours",
       patterns |-> << <<"o", "p", "e", "r", "a", "t", "i", "n", "g", " ", "h", "o", "u", "r", "s">>,
                     <<"h", "o", "u", "r", "s">>,
                     <<"b", "u", "s", "i", "n", "e", "s", "s", " ", "h", "o", "u", "r", "s">>,
                     <<"c", "l", "i", "n", "i", "c", " ", "h", "o", "u", "r", "s">>,
                     <<"o", "p", "e", "n", "i", "n", "g", " ", "h", "o", "u", "r", "s">>,
                     <<"o", "p", "e", "r", "a", "t", "i", "o", "n", " ", "h", "o", "u", "r", "s">>,
                     <<"w", "o", "r", "k", "i", "n", "g", " ", "h", "o", "u", "r", "s">>,
                     <<"s", "e", "r", "v", "i", "c", "e", " ", "h", "o", "u", "r", "s">> >>],
     [key |-> "mon_fri_am",
       patterns |-> << <<"m", "o", "n", " ", "-", " ", "f", "r", "i", " ", "(", "a", "m", ")">>,
                     <<"m", "o", "n", "d", "a", "y", " ", "-", " ", "f", "r", "i", "d", "a", "y">>,
                     <<"w", "e", "e", "k", "d", "a", "y", " ", "a", "m">>,
                     <<"m", "o", "n", "-", "f", "r", "i", " ", "a", "m">>,
                     <<"o", "p", "e", "r", "a", "t", "i", "n", "g", " ", "h", "o", "u", "r", "s", "\n", "m", "o", "n", "-", "f", "r", "i">>,
                     <<"o", "p", "e", "r", "a", "t", "i", "n", "g", " ", "h", "o", "u", "r", "s", " ", "m", "o", "n", "-", "f", "r", "i">>,
                     <<"w", "e", "e", "k", "d", "a", "y", "s", " ", "a", "m">>,
                     <<"o", "p", "e", "r", "a", "t", "i", "n", "g", " ", "h", "o", "u", "r", "s", " ", "\n", "m", "o", "n", " ", "-", " ", "f", "r", "i">>,
                     <<"o", "p", "e", "r", "a", "t", "i", "n", "g", " ", "h", "o", "u", "r", "s", " ", "m", "o", "n", " ", "-", " ", "f", "r", "i">>,
                     <<"o", "p", "e", "r", "a", "t", "i", "n", "g", " ", "h", "o", "u", "r", "s", " ", "(", "m", "o", "n", "d", "a", "y", " ", "-", " ", "f", "r", "i", "d", "a", "y", ")">>,
                     <<"o", "p", "e", "r", "a", "t", "i", "o", "n", " ", "h", "o", "u", "r", "s">>,
                     <<"m", "o", "n", " ", "t", "o", " ", "f", "r", "i">>,
                     <<"m", "o", "n", " ", "-", " ", "f", "r", "i">>,
                     <<"w", "e", "e", "k", "d", "a", "y", "s">>,
                     <<"o", "p", "e", "r", "a", "t", "i", "n", "g", " ", "h", "o", "u", "r", " ", "m", "o", "n", "d", "a", "y", " ", "-", " ", "f", "r", "i", "d", "a", "y">> >>],
     [key |-> "mon_fri_pm",
       patterns |-> << <<"m", "o", "n", " ", "-", " ", "f", "r", "i", " ", "(", "p", "m", ")">>,
                     <<"m", "o", "n", "d", "a", "y", " ", "-", " ", "f", "r", "i", "d", "a", "y", " ", "(", "e", "v", "e", "n", "i", "n", "g", ")">>,
                     <<"w", "e", "e", "k", "d", "a", "y", " ", "p", "m">>,
                     <<"m", "o", "n", "-", "f", "r", "i", " ", "p", "m">>,
                     <<"w", "e", "e", "k", "d", "a", "y", "s", " ", "p", "m">> >>],
     [key |-> "mon_fri_night",
       patterns |-> << <<"m", "o", "n", " ", "-", " ", "f", "r", "i", " ", "(", "n", "i", "g", "h", "t", ")">>,
                     <<"w", "e", "e", "k", "d", "a", "y", " ", "n", "i", "g", "h", "t">>,
                     <<"m", "o", "n", "-", "f", "r", "i", " ", "n", "i", "g", "h", "t">>,
                     <<"w", "e", "e", "k", "d", "a", "y", "s", " ", "n", "i", "g", "h", "t">> >>],
     [key |-> "sat_am",
       patterns |-> << <<"s", "a", "t", " ", "(", "a", "m", ")">>,
                     <<"s", "a", "t", "u", "r", "d", "a", "y">>,
                     <<"s", "a", "t", " ", "a", "m">>,
                     <<"s", "a", "t", "u", "r", "d", "a", "y", " ", "a", "m">> >>],
     [key |-> "sat_pm",
       patterns |-> << <<"s", "a", "t", " ", "(", "p", "m", ")">>,
                     <<"s", "a", "t", " ", "p", "m">>,
                     <<"s", "a", "t", "u", "r", "d", "a", "y", " ", "p", "m">> >>],
     [key |-> "sat_night",
       patterns |-> << <<"s", "a", "t", " ", "(", "n", "i", "g", "h", "t", ")">>,
                     <<"s", "a", "t", " ", "n", "i", "g", "h", "t">>,
                     <<"s", "a", "t", "u", "r", "d", "a", "y", " ", "n", "i", "g", "h", "t">> >>],
     [key |-> "sat_simple",
       patterns |-> << <<"s", "a", "t">>,
                     <<"o", "p", "e", "r", "a", "t", "i", "n", "g", " ", "h", "o", "u", "r", "s", " ", "(", "s", "a", "t", "u", "r", "d", "a", "y", ")">> >>],
     [key |-> "sun_am",
       patterns |-> << <<"s", "u", "n", " ", "(", "a", "m", ")">>,
                     <<"s", "u", "n", "d", "a", "y">>,
                     <<"s", "u", "n", " ", "a", "m">>,
                     <<"s", "u", "n", "d", "a", "y", " ", "a", "m">> >>],
     [key |-> "sun_pm",
       patterns |-> << <<"s", "u", "n", " ", "(", "p", "m", ")">>,
                     <<"s", "u", "n", " ", "p", "m">>,
                     <<"s", "u", "n", "d", "a", "y", " ", "p", "m">> >>],
     [key |-> "sun_night",
       patterns |-> << <<"s", "u", "n", " ", "(", "n", "i", "g", "h", "t", ")">>,
                     <<"s", "u", "n", " ", "n", "i", "g", "h", "t">>,
                     <<"s", "u", "n", "d", "a", "y", " ", "n", "i", "g", "h", "t">> >>],
     [key |-> "sun_simple",
       patterns |-> << <<"s", "u", "n">>,
                     <<"o", "p", "e", "r", "a", "t", "i", "n", "g", " ", "h", "o", "u", "r", "s", " ", "(", "s", "u", "n", "d", "a", "y", ")">> >>],
     [key |-> "holiday_am",
       patterns |-> << <<"p", "u", "b", "l", "i", "c", " ", "h", "o", "l", "i", "d", "a", "y", " ", "(", "a", "m", ")">>,
                     <<"p", "u", "b", "l", "i", "c", " ", "h", "o", "l", "i", "d", "a", "y">>,
                     <<"h", "o", "l", "i", "d", "a", "y", " ", "a", "m">>,
                     <<"p", "h", " ", "a", "m">>,
                     <<"p", "h">>,
                     <<"p", "u", "b", "l", "i", "c", "d", "a", "y">> >>],
     [key |-> "holiday_pm",
       patterns |-> << <<"p", "u", "b", "l", "i", "c", " ", "h", "o", "l", "i", "d", "a", "y", " ", "(", "p", "m", ")">>,
                     <<"h", "o", "l", "i", "d", "a", "y", " ", "p", "m">>,
                     <<"p", "h", " ", "p", "m">> >>],
     [key |-> "holiday_night",
       patterns |-> << <<"p", "u", "b", "l", "i", "c", " ", "h", "o", "l", "i", "d", "a", "y", " ", "(", "n", "i", "g", "h", "t", ")">>,
                     <<"h", "o", "l", "i", "d", "a", "y", " ", "n", "i", "g", "h", "t">>,
                     <<"p", "h", " ", "n", "i", "g", "h", "t">> >>],
     [key |-> "holiday_simple",
       patterns |-> << <<"h", "o", "l", "i", "d", "a", "y">>,
                     <<"p", "h">>,
                     <<"o", "p", "e", "r", "a", "t", "i", "n", "g", " ", "h", "o", "u", "r", "s", " ", "(", "h", "o", "l", "i", "d", "a", "y", "(", "s", ")", ")">>,
                     <<"o", "p", "e", "r", "a", "t", "i", "n", "g", " ", "h", "o", "u", "r", "s", " ", "(", "h", "o", "l", "i", "d", "a", "y", "s", ")">> >>],
     [key |-> "address_blk",
       patterns |-> << <<"b", "l", "k">>,
                     <<"b", "l", "o", "c", "k">>,
                     <<"b", "u", "i", "l", "d", "i", "n", "g", " ", "n", "o">>,
                     <<"b", "l", "d", "g", " ", "n", "o">>,
                     <<"u", "n", "i", "t", " ", "b", "l", "o", "c", "k">>,
                     <<"b", "l", "k", " ", "&", " ", "r", "o", "a", "d", " ", "n", "a", "m", "e">> >>],
     [key |-> "address_road",
       patterns |-> << <<"r", "o", "a", "d", " ", "n", "a", "m", "e">>,
                     <<"s", "t", "r", "e", "e", "t", " ", "n", "a", "m", "e">>,
                     <<"s", "t", "r", "e", "e", "t">>,
                     <<"r", "o", "a", "d">>,
                     <<"a", "v", "e", "n", "u", "e">>,
                     <<"a", "v", "e">>,
                     <<"b", "l", "k", " ", "&", " ", "r", "o", "a", "d", " ", "n", "a", "m", "e">> >>],
     [key |-> "address_unit",
       patterns |-> << <<"u", "n", "i", "t", " ", "n", "o", ".">>,
                     <<"u", "n", "i", "t", " ", "n", "o">>,
                     <<"u", "n", "i", "t">>,
                     <<"#">>,
                     <<"s", "u", "i", "t", "e">>,
                     <<"l", "e", "v", "e", "l">>,
                     <<"u", "n", "i", "t", " ", "&", " ", "b", "u", "i", "l", "d", "i", "n", "g", " ", "n", "a", "m", "e">> >>],
     [key |-> "address_building",
       patterns |-> << <<"b", "u", "i", "l", "d", "i", "n", "g", " ", "n", "a", "m", "e">>,
                     <<"b", "u", "i", "l", "d", "i", "n", "g">>,
                     <<"b", "l", "d", "g", " ", "n", "a", "m", "e">>,
                     <<"c", "o", "m", "p", "l", "e", "x", " ", "n", "a", "m", "e">>,
                     <<"u", "n", "i", "t", " ", "&", " ", "b", "u", "i", "l", "d", "i", "n", "g", " ", "n", "a", "m", "e">> >>],
     [key |-> "postal_code",
       patterns |-> << <<"p", "o", "s", "t", "a", "l", " ", "c", "o", "d", "e">>,
                     <<"p", "o", "s", "t", "c", "o", "d", "e">>,
                     <<"z", "i", "p", " ", "c", "o", "d", "e">>,
                     <<"z", "i", "p">>,
                     <<"p", "o", "s", "t", "a", "l">> >>],
     [key |-> "doctor_name",
       patterns |-> << <<"p", "h", "y", "s", "i", "c", "i", "a", "n", " ", "-", " ", "i", "n", " ", "-", " ", "c", "h", "a", "r", "g", "e">>,
                     <<"p", "h", "y", "s", "i", "c", "i", "a", "n", " ", "i", "n", " ", "c", "h", "a", "r", "g", "e">>,
                     <<"d", "o", "c", "t", "o", "r">>,
                     <<"p", "h", "y", "s", "i", "c", "i", "a", "n">>,
                     <<"p", "r", "a", "c", "t", "i", "t", "i", "o", "n", "e", "r">> >>],
     [key |-> "specialty",
       patterns |-> << <<"s", "p", "e", "c", "i", "a", "l", "t", "y">>,
                     <<"s", "p", "e", "c", "i", "a", "l", "i", "t", "y">>,
                     <<"m", "e", "d", "i", "c", "a", "l", " ", "s", "p", "e", "c", "i", "a", "l", "t", "y">>,
                     <<"s", "p", "e", "c", "i", "a", "l", "i", "z", "a", "t", "i", "o", "n">>,
                     <<"d", "e", "p", "a", "r", "t", "m", "e", "n", "t">> >>],
     [key |-> "address1",
       patterns |-> << <<"a", "d", "d", "r", "e", "s", "s", "1">>,
                     <<"a", "d", "d", "r", "e", "s", "s", " ", "1">>,
                     <<"p", "r", "i", "m", "a", "r", "y", " ", "a", "d", "d", "r", "e", "s", "s">>,
                     <<"s", "t", "r", "e", "e", "t", " ", "a", "d", "d", "r", "e", "s", "s">> >>],
     [key |-> "address2",
       patterns |-> << <<"a", "d", "d", "r", "e", "s", "s", "2">>,
                     <<"a", "d", "d", "r", "e", "s", "s", " ", "2">>,
                     <<"s", "e", "c", "o", "n", "d", "a", "r", "y", " ", "a", "d", "d", "r", "e", "s", "s">>,
                     <<"u", "n", "i", "t", " ", "n", "u", "m", "b", "e", "r">> >>],
     [key |-> "address3",
       patterns |-> << <<"a", "d", "d", "r", "e", "s", "s", "3">>,
                     <<"a", "d", "d", "r", "e", "s", "s", " ", "3">>,
                     <<"b", "u", "i", "l", "d", "i", "n", "g", " ", "n", "a", "m", "e">>,
                     <<"c", "o", "m", "p", "l", "e", "x", " ", "n", "a", "m", "e">> >>],
     [key |-> "address4",
       patterns |-> << <<"a", "d", "d", "r", "e", "s", "s", "4">>,
                     <<"a", "d", "d", "r", "e", "s", "s", " ", "4">>,
                     <<"p", "o", "s", "t", "a", "l", " ", "a", "d", "d", "r", "e", "s", "s">>,
                     <<"l", "o", "c", "a", "t", "i", "o", "n", " ", "d", "e", "t", "a", "i", "l">> >>] >>
PatternsOf(key) ==
  Mappings[CHOOSE i \in 1..Len(Mappings) : Mappings[i].key = key].patterns

\* A dict as the sequence of its items in insertion order; d[k] = v keeps the
\* position of a key that is already there.
DictHas(d, k) == \E i \in 1..Len(d) : d[i].k = k
DictGet(d, k) == d[CHOOSE i \in 1..Len(d) : d[i].k = k].v
DictPut(d, k, v) ==
  IF DictHas(d, k)
    THEN [i \in 1..Len(d) |-> IF d[i].k = k THEN [k |-> k, v |-> v] ELSE d[i]]
  ELSE Append(d, [k |-> k, v |-> v])
DictKeys(d) == [i \in 1..Len(d) |-> d[i].k]

\* df_cols_lower / df_cols_cleaned: cleaned label -> column
RECURSIVE CleanedColumns(_, _)
CleanedColumns(d, df_columns) ==
  IF df_columns = <<>> THEN d
  ELSE CleanedColumns(DictPut(d, CleanLabel(Head(df_columns)), Head(df_columns)),
                      Tail(df_columns))

\* column_mapping: a function from the bound canonical keys to columns
NoMapping == [k \in {} |-> <<>>]
Bind(m, key, col) ==
  [k \in DOMAIN m \cup {key} |-> IF k = key THEN col ELSE m[k]]

\* (mutant) the first column, in sheet order, whose label is a literal of the key
RECURSIVE FirstPatternByColumn(_, _)
FirstPatternByColumn(patterns, df_cols_lower) ==
  IF df_cols_lower = <<>> THEN <<>>
  ELSE IF \E i \in 1..Len(patterns) : patterns[i] = Head(df_cols_lower).k
    THEN <<Head(df_cols_lower).k>>
  ELSE FirstPatternByColumn(patterns, Tail(df_cols_lower))

\* `for pattern in patterns: if pattern in df_cols_lower: ...; break`
RECURSIVE FirstPattern(_, _)
FirstPattern(patterns, df_cols_lower) ==
  IF patterns = <<>> THEN <<>>
  ELSE IF DictHas(df_cols_lower, Head(patterns)) THEN <<Head(patterns)>>
  ELSE FirstPattern(Tail(patterns), df_cols_lower)

\* Phase 1: exact pattern matching
RECURSIVE ExactPhase(_, _, _)
ExactPhase(m, keys, df_cols_lower) ==
  IF keys = <<>> THEN m
  ELSE ExactPhase(
         IF FirstPattern(Head(keys).patterns, df_cols_lower) # <<>>
           THEN Bind(m, Head(keys).key,
                     DictGet(df_cols_lower,
                             FirstPattern(Head(keys).patterns, df_cols_lower)[1]))
         ELSE m,
         Tail(keys), df_cols_lower)

\* col_list.index(col)
IndexOf(col_list, col) == CHOOSE i \in 1..Len(col_list) :
                            col_list[i] = col /\ \A j \in 1..(i - 1) : col_list[j] # col

\* the column `offset` places after the weekday column is an unnamed column,
\* or its label holds one of `words` (for Saturday: is exactly 'sat')
SequentialHit(col_list, idx, offset, words, exact) ==
  /\ idx + offset <= Len(col_list)
  /\ \/ Contains(Lower(col_list[idx + offset]), <<"u", "n", "n", "a", "m", "e", "d">>)
     \/ \E w \in words :
          IF exact THEN Strip(Lower(col_list[idx + offset])) = w
          ELSE Contains(Lower(col_list[idx + offset]), w)

SequentialBind(m, col_list, idx, offset, key, words, exact) ==
  IF SequentialHit(col_list, idx, offset, words, exact)
    THEN Bind(m, key, col_list[idx + offset])
  ELSE m

\* Phase 2: sequential operating-hours columns after the weekday column
SequentialPhase(m, col_list) ==
  IF "mon_fri_am" \notin DOMAIN m THEN m
  ELSE SequentialBind(
         SequentialBind(
           SequentialBind(m, col_list, IndexOf(col_list, m["mon_fri_am"]), 1,
                          "sat_simple", {<<"s", "a", "t">>}, TRUE),
           col_list, IndexOf(col_list, m["mon_fri_am"]), 2,
           "sun_simple", {<<"s", "u", "n">>}, FALSE),
         col_list, IndexOf(col_list, m["mon_fri_am"]), 3,
         "holiday_simple", {<<"p", "h">>, <<"h", "o", "l", "i", "d", "a", "y">>}, FALSE)

\* SequenceMatcher.ratio() in thousandths, for the literals of the essential
\* keys against the cleaned labels of the model's columns; pairs below the
\* lowest cutoff (0.6) are left out.
SimilarityTable ==
  { [a |-> <<"c", "e", "n", "t", "e", "r", " ", "n", "a", "m", "e">>, b |-> <<"c", "l", "i", "n", "c", " ", "n", "a", "m", "e">>, r |-> 666],
    [a |-> <<"c", "e", "n", "t", "e", "r", " ", "n", "a", "m", "e">>, b |-> <<"c", "l", "i", "n", "i", "c", " ", "n", "a", "m", "e">>, r |-> 636],
    [a |-> <<"c", "e", "n", "t", "r", "e", " ", "n", "a", "m", "e">>, b |-> <<"c", "l", "i", "n", "c", " ", "n", "a", "m", "e">>, r |-> 666],
    [a |-> <<"c", "e", "n", "t", "r", "e", " ", "n", "a", "m", "e">>, b |-> <<"c", "l", "i", "n", "i", "c", " ", "n", "a", "m", "e">>, r |-> 636],
    [a |-> <<"c", "l", "i", "n", "i", "c">>, b |-> <<"c", "l", "i", "n", "c", " ", "n", "a", "m", "e">>, r |-> 625],
    [a |-> <<"c", "l", "i", "n", "i", "c">>, b |-> <<"c", "l", "i", "n", "i", "c", " ", "c", "o", "d", "e", " ", "n", "o">>, r |-> 600],
    [a |-> <<"c", "l", "i", "n", "i", "c">>, b |-> <<"c", "l", "i", "n", "i", "c", " ", "n", "a", "m", "e">>, r |-> 705],
    [a |-> <<"c", "l", "i", "n", "i", "c", " ", "n", "a", "m", "e">>, b |-> <<"c", "l", "i", "n", "c", " ", "n", "a", "m", "e">>, r |-> 952],
    [a |-> <<"c", "l", "i", "n", "i", "c", " ", "n", "a", "m", "e">>, b |-> <<"c", "l", "i", "n", "i", "c", " ", "c", "o", "d", "e", " ", "n", "o">>, r |-> 640],
    [a |-> <<"c", "l", "i", "n", "i", "c", " ", "n", "a", "m", "e">>, b |-> <<"c", "l", "i", "n", "i", "c", " ", "n", "a", "m", "e">>, r |-> 1000],
    [a |-> <<"c", "l", "i", "n", "i", "c", " ", "n", "a", "m", "e">>, b |-> <<"f", "a", "c", "i", "l", "i", "t", "y", " ", "n", "a", "m", "e">>, r |-> 666],
    [a |-> <<"e", "s", "t", "a", "t", "e">>, b |-> <<"s", "a", "t">>, r |-> 666],
    [a |-> <<"e", "s", "t", "a", "t", "e">>, b |-> <<"s", "t", "a", "t", "e">>, r |-> 909],
    [a |-> <<"f", "a", "c", "i", "l", "i", "t", "y", " ", "n", "a", "m", "e">>, b |-> <<"c", "l", "i", "n", "c", " ", "n", "a", "m", "e">>, r |-> 695],
    [a |-> <<"f", "a", "c", "i", "l", "i", "t", "y", " ", "n", "a", "m", "e">>, b |-> <<"c", "l", "i", "n", "i", "c", " ", "n", "a", "m", "e">>, r |-> 666],
    [a |-> <<"f", "a", "c", "i", "l", "i", "t", "y", " ", "n", "a", "m", "e">>, b |-> <<"f", "a", "c", "i", "l", "i", "t", "y", " ", "n", "a", "m", "e">>, r |-> 1000],
    [a |-> <<"n", "a", "m", "e">>, b |-> <<"n", "a", "m", "e">>, r |-> 1000],
    [a |-> <<"s", "t", "a", "t", "e">>, b |-> <<"s", "a", "t">>, r |-> 750],
    [a |-> <<"s", "t", "a", "t", "e">>, b |-> <<"s", "t", "a", "t", "e">>, r |-> 1000] }
Ratio(pattern, label) ==
  IF \E e \in SimilarityTable : e.a = pattern /\ e.b = label
    THEN (CHOOSE e \in SimilarityTable : e.a = pattern /\ e.b = label).r
  ELSE 0

\* get_close_matches(pattern, labels, n=1, cutoff): the best label at or above
\* the cutoff, <<>> when there is none
CloseMatches(pattern, labels, cutoff) ==
  IF \E i \in 1..Len(labels) : Ratio(pattern, labels[i]) >= cutoff
    THEN <<labels[CHOOSE i \in 1..Len(labels) :
                    /\ Ratio(pattern, labels[i]) >= cutoff
                    /\ \A j \in 1..Len(labels) :
                         Ratio(pattern, labels[j]) <= Ratio(pattern, labels[i])]>>
  ELSE <<>>

\* cutoff = 0.8 if expected_col in ['region', 'area'] else 0.6
RegionAreaCutoff == 800
DefaultCutoff == 600
Cutoff(key) == IF key \in {"region", "area"} THEN RegionAreaCutoff ELSE DefaultCutoff

\* `for pattern in all_patterns: close_matches = ...; if close_matches: ...; break`
RECURSIVE FuzzyPattern(_, _, _)
FuzzyPattern(patterns, labels, cutoff) ==
  IF patterns = <<>> THEN <<>>
  ELSE IF CloseMatches(Head(patterns), labels, cutoff) # <<>>
    THEN CloseMatches(Head(patterns), labels, cutoff)
  ELSE FuzzyPattern(Tail(patterns), labels, cutoff)

\* has_region_candidate / has_area_candidate
HasCandidate(df_cols_cleaned, words) ==
  \E i \in 1..Len(df_cols_cleaned) :
    \E w \in words : Contains(Lower(df_cols_cleaned[i].k), w)
EssentialColumns(df_cols_cleaned) ==
  <<"clinic_name", "telephone">>
    \o (IF HasCandidate(df_cols_cleaned,
            {<<"r", "e", "g", "i", "o", "n">>, <<"z", "o", "n", "e">>, <<"s", "t", "a", "t", "e">>, <<"c", "i", "t", "y">>})
          THEN <<"region">> ELSE <<>>)
    \o (IF HasCandidate(df_cols_cleaned,
            {<<"a", "r", "e", "a">>, <<"d", "i", "s", "t", "r", "i", "c", "t">>, <<"s", "t", "a", "t", "e">>})
          THEN <<"area">> ELSE <<>>)

\* Phase 3: fuzzy matching for the essential keys that are still unmapped
RECURSIVE FuzzyPhase(_, _, _)
FuzzyPhase(m, essential_columns, df_cols_cleaned) ==
  IF essential_columns = <<>> THEN m
  ELSE FuzzyPhase(
         IF /\ Head(essential_columns) \notin DOMAIN m
            /\ FuzzyPattern(PatternsOf(Head(essential_columns)),
                            DictKeys(df_cols_cleaned),
                            Cutoff(Head(essential_columns))) # <<>>
           THEN Bind(m, Head(essential_columns),
                     DictGet(df_cols_cleaned,
                             FuzzyPattern(PatternsOf(Head(essential_columns)),
                                          DictKeys(df_cols_cleaned),
                                          Cutoff(Head(essential_columns)))[1]))
         ELSE m,
         Tail(essential_columns), df_cols_cleaned)

\* remaining_mappings
RemainingMappings ==
  << [key |-> "clinic_id",
      keywords |-> << <<"c", "l", "i", "n", "i", "c", " ", "c", "o", "d", "e">>, <<"c", "l", "i", "n", "i", "c", " ", "i", "d">>, <<"p", "r", "o", "v", "i", "d", "e", "r", " ", "i", "d">>, <<"p", "r", "o", "v", "i", "d", "e", "r", " ", "c", "o", "d", "e">> >>],
     [key |-> "address",
      keywords |-> << <<"a", "d", "d", "r", "e", "s", "s", "1">>, <<"a", "d", "d", "r", "e", "s", "s">>, <<"l", "o", "c", "a", "t", "i", "o", "n">> >>],
     [key |-> "remarks",
      keywords |-> << <<"r", "e", "m", "a", "r", "k">>, <<"c", "o", "m", "m", "e", "n", "t">>, <<"n", "o", "t", "e">> >>] >>

\* keyword in col_name and len(keyword) / len(col_name) > 0.4
KeywordHit(keywords, col_name) ==
  \E i \in 1..Len(keywords) :
    Contains(col_name, keywords[i]) /\ 10 * Len(keywords[i]) > 4 * Len(col_name)

\* the first cleaned label, in dict order, that a keyword of the key hits
RECURSIVE FirstKeywordColumn(_, _)
FirstKeywordColumn(keywords, df_cols_cleaned) ==
  IF df_cols_cleaned = <<>> THEN <<>>
  ELSE IF KeywordHit(keywords, Head(df_cols_cleaned).k)
    THEN <<Head(df_cols_cleaned).v>>
  ELSE FirstKeywordColumn(keywords, Tail(df_cols_cleaned))

\* Phase 4: keyword matching for the remaining keys
RECURSIVE KeywordPhase(_, _, _)
KeywordPhase(m, remaining, df_cols_cleaned) ==
  IF remaining = <<>> THEN m
  ELSE KeywordPhase(
         IF /\ Head(remaining).key \notin DOMAIN m
            /\ FirstKeywordColumn(Head(remaining).keywords, df_cols_cleaned) # <<>>
           THEN Bind(m, Head(remaining).key,
                     FirstKeywordColumn(Head(remaining).keywords, df_cols_cleaned)[1])
         ELSE m,
         Tail(remaining), df_cols_cleaned)

\* the mapping after each phase
AfterPhases(df_columns, d, p1) ==
  [ phase1 |-> p1,
    phase2 |-> SequentialPhase(p1, df_columns),
    phase3 |-> FuzzyPhase(SequentialPhase(p1, df_columns), EssentialColumns(d), d),
    column_mapping |->
      KeywordPhase(FuzzyPhase(SequentialPhase(p1, df_columns), EssentialColumns(d), d),
                   RemainingMappings, d) ]

MapColumnsOn(df_columns, d) ==
  AfterPhases(df_columns, d, ExactPhase(NoMapping, Mappings, d))

\* ExcelTransformer.map_columns: its result is .column_mapping
map_columns(df_columns) ==
  MapColumnsOn(df_columns, CleanedColumns(<<>>, df_columns))

\* Column labels of the model's sheets (pandas makes the labels of one sheet
\* distinct and labels an empty header cell 'Unnamed: N').
ColumnLib ==
  { <<"C", "l", "i", "n", "i", "c", " ", "N", "a", "m", "e">>,
    <<"N", "a", "m", "e">>,
    <<"F", "a", "c", "i", "l", "i", "t", "y", " ", "N", "a", "m", "e">>,
    <<"C", "L", "I", "N", "I", "C", " ", " ", "N", "A", "M", "E", " ">>,
    <<"S", "t", "a", "t", "e">>,
    <<"M", "o", "n", " ", "-", " ", "F", "r", "i">>,
    <<"U", "n", "n", "a", "m", "e", "d", ":", " ", "2">>,
    <<"S", "a", "t">>,
    <<"C", "l", "i", "n", "c", " ", "N", "a", "m", "e">>,
    <<"C", "l", "i", "n", "i", "c", " ", "C", "o", "d", "e", " ", "N", "o">>,
    <<"A", "d", "d", "r", "e", "s", "s", "1">>,
    <<"N", "o", "t", "e", " ", "F", "i", "e", "l", "d">>,
    <<"D", "o", "c", "t", "o", "r", " ", "N", "o", "t", "e">>,
    <<"L", "a", "b", " ", "N", "o", "t", "e", "s">> }
ColumnLists ==
  { cs \in SeqsUpTo(ColumnLib, MaxCols) :
      \A i, j \in DOMAIN cs : i # j => cs[i] # cs[j] }

InitColumns ==
  /\ fn \in {Pending(cs) : cs \in ColumnLists}
  /\ GeoIdle /\ LoadIdle /\ BookIdle
  /\ BatchIdle

MapColumnsCall ==
  /\ fn.name = "pending"
  /\ fn' = [name |-> "map_columns", arg |-> fn.arg, res |-> map_columns(fn.arg)]
  /\ UNCHANGED <<geoVars, loadVars, bookVars, batchVars>>

NextColumns == MapColumnsCall
SpecColumns == InitColumns /\ [][NextColumns]_vars

\* the mapping after map_columns' phases, of the last application
Phase1Map == fn.res.phase1
Phase2Map == fn.res.phase2
Phase3Map == fn.res.phase3
FinalMap == fn.res.column_mapping
\* every binding of `earlier` is still the binding of `later`
Keeps(earlier, later) ==
  \A k \in DOMAIN earlier : k \in DOMAIN later /\ later[k] = earlier[k]

\* C14 (as claimed): each phase of map_columns only fills keys that are not
\* resolved yet: a key bound by an earlier phase is never rebound to another
\* column by sequential inference, fuzzy matching or keyword matching.
C14_PhasesOnlyFill ==
  (fn.name = "map_columns")
  => /\ Keeps(Phase1Map, Phase2Map)
     /\ Keeps(Phase2Map, Phase3Map)
     /\ Keeps(Phase3Map, FinalMap)

\* C15 (as claimed): in the mapping map_columns returns no column is
\* referenced by more than one canonical key.
C15_ColumnsUnique ==
  (fn.name = "map_columns")
  => \A k1, k2 \in DOMAIN FinalMap :
       k1 # k2 => FinalMap[k1] # FinalMap[k2]

\* the cleaned labels of the sheet's columns
CleanLabels(df_columns) == {CleanLabel(df_columns[i]) : i \in DOMAIN df_columns}
\* the positions of the key's literals that occur among the cleaned labels
LiteralsPresent(patterns, labels) == {i \in DOMAIN patterns : patterns[i] \in labels}
\* the key is bound to a column labelled with its earliest literal present,
\* and is unbound when none is present
BoundToEarliest(m, key, patterns, present) ==
  IF present = {} THEN key \notin DOMAIN m
  ELSE /\ key \in DOMAIN m
       /\ m[key] \in Elems(fn.arg)
       /\ CleanLabel(m[key]) = patterns[Least(present)]
AllBoundToEarliest(m, labels) ==
  \A n \in DOMAIN Mappings :
    BoundToEarliest(m, Mappings[n].key, Mappings[n].patterns,
                    LiteralsPresent(Mappings[n].patterns, labels))

\* C16: after the exact-match phase each canonical key is bound to a column
\* whose cleaned label is the earliest literal of the key's list occurring
\* among the sheet's labels (whatever the order of the columns), and is
\* unbound when no literal occurs; clinic_name keeps that column to the end.
C16_ExactMatch ==
  (fn.name = "map_columns")
  => /\ AllBoundToEarliest(Phase1Map, CleanLabels(fn.arg))
     /\ ("clinic_name" \in DOMAIN Phase1Map)
          => FinalMap["clinic_name"] = Phase1Map["clinic_name"]

C16_Witness ==
  /\ fn.name = "map_columns"
  /\ Len(fn.arg) = 2
  /\ CleanLabel(fn.arg[1]) = <<"n", "a", "m", "e">>
  /\ CleanLabel(fn.arg[2]) = <<"c", "l", "i", "n", "i", "c", " ", "n", "a", "m", "e">>
  /\ FinalMap["clinic_name"] = fn.arg[2]


\* ---------------------------------------------------------------------
\* Operating hours: combine_operating_hours_flexible and the remarks parser
\* ---------------------------------------------------------------------

\* The regular expressions of extract_hours_from_remarks.  A pattern is a
\* sequence of items; every expression is used with re.IGNORECASE, so patterns
\* are written in lower case and matched against the lower-cased text.
Lit(s) == [k |-> "lit", s |-> s]
Opt(p) == [k |-> "opt", p |-> p]
Alt(ps) == [k |-> "alt", ps |-> ps]
Plus(p) == [k |-> "plus", p |-> p]
Digits(lo, hi) == [k |-> "dig", lo |-> lo, hi |-> hi]
Ws0 == [k |-> "ws0"]
Ws1 == [k |-> "ws1"]
Wb == [k |-> "wb"]
AtEnd == [k |-> "end"]
AlphaBlank1 == [k |-> "alpha1"]

IsWordChar(c) ==
  \/ IsDigit(c)
  \/ c = "_"
  \/ \E i \in 1..26 : LowerChars[i] = c \/ UpperChars[i] = c
\* \b
AtBoundary(t, i) ==
  (i > 1 /\ IsWordChar(t[i - 1])) # (i <= Len(t) /\ IsWordChar(t[i]))
BlankRun(t, i, j) == \A x \in i..(j - 1) : IsSpace(t[x])
\* [A-Za-z\s]+ over the lower-cased text
AlphaRun(t, i, j) ==
  \A x \in i..(j - 1) : IsSpace(t[x]) \/ \E n \in 1..26 : LowerChars[n] = t[x]
DigitRun(t, i, n) == i + n - 1 <= Len(t) /\ \A x \in i..(i + n - 1) : IsDigit(t[x])

\* Ends(t, S, p): the positions where a match of p that starts at a position
\* of S can end (a position is the index of the next character to read)
RECURSIVE Ends(_, _, _)
RECURSIVE StepOne(_, _, _)
RECURSIVE PlusEnds(_, _, _)
StepOne(t, i, item) ==
  CASE item.k = "lit" ->
         IF i + Len(item.s) - 1 <= Len(t) /\ SubSeq(t, i, i + Len(item.s) - 1) = item.s
         THEN {i + Len(item.s)} ELSE {}
    [] item.k = "opt" -> {i} \cup Ends(t, {i}, item.p)
    [] item.k = "alt" -> UNION {Ends(t, {i}, item.ps[n]) : n \in DOMAIN item.ps}
    [] item.k = "plus" -> PlusEnds(t, Ends(t, {i}, item.p), item.p)
    [] item.k = "dig" -> {i + n : n \in {m \in item.lo..item.hi : DigitRun(t, i, m)}}
    [] item.k = "ws0" -> {j \in i..(Len(t) + 1) : BlankRun(t, i, j)}
    [] item.k = "ws1" -> {j \in (i + 1)..(Len(t) + 1) : BlankRun(t, i, j)}
    [] item.k = "wb" -> IF AtBoundary(t, i) THEN {i} ELSE {}
    [] item.k = "end" -> IF i = Len(t) + 1 THEN {i} ELSE {}
    [] item.k = "alpha1" -> {j \in (i + 1)..(Len(t) + 1) : AlphaRun(t, i, j)}
PlusEnds(t, S, p) ==
  IF S = {} THEN {} ELSE S \cup PlusEnds(t, Ends(t, S, p) \ S, p)
Ends(t, S, p) ==
  IF p = <<>> \/ S = {} THEN S
  ELSE Ends(t, UNION {StepOne(t, i, Head(p)) : i \in S}, Tail(p))

\* re.search(p, t)
Search(t, p) == \E s \in 1..(Len(t) + 1) : Ends(t, {s}, p) # {}
Smallest(S) == CHOOSE x \in S : \A y \in S : x <= y
Largest(S) == CHOOSE x \in S : \A y \in S : y <= x

\* day_patterns, in the order of the dictionary
DayPatterns ==
  <<
     [key |-> "mon_to_fri",
      p |-> <<Lit(<<"m", "o", "n">>), Opt(<<Lit(<<"d", "a", "y">>)>>), Ws0, Alt(<<<<Lit(<<"-">>)>>, <<Lit(<<"t", "o">>)>>>>), Ws0, Lit(<<"f", "r", "i">>), Opt(<<Lit(<<"d", "a", "y">>)>>)>>],
     [key |-> "mon_to_wed",
      p |-> <<Lit(<<"m", "o", "n">>), Opt(<<Lit(<<"d", "a", "y">>)>>), Ws0, Alt(<<<<Lit(<<"-">>)>>, <<Lit(<<"t", "o">>)>>>>), Ws0, Lit(<<"w", "e", "d">>), Opt(<<Lit(<<"n", "e", "s", "d", "a", "y">>)>>)>>],
     [key |-> "thu_to_fri",
      p |-> <<Lit(<<"t", "h", "u">>), Opt(<<Lit(<<"r">>), Opt(<<Lit(<<"s">>)>>)>>), Ws0, Alt(<<<<Lit(<<"-">>)>>, <<Lit(<<"t", "o">>)>>>>), Ws0, Lit(<<"f", "r", "i">>), Opt(<<Lit(<<"d", "a", "y">>)>>)>>],
     [key |-> "day_combo",
      p |-> <<Alt(<<<<Lit(<<"m", "o", "n">>)>>, <<Lit(<<"t", "u", "e">>)>>, <<Lit(<<"w", "e", "d">>)>>, <<Lit(<<"t", "h", "u">>), Opt(<<Lit(<<"r">>)>>)>>, <<Lit(<<"f", "r", "i">>)>>, <<Lit(<<"s", "a", "t">>)>>, <<Lit(<<"s", "u", "n">>)>>>>), Plus(<<Ws0, Lit(<<"/">>), Ws0, Alt(<<<<Lit(<<"m", "o", "n">>)>>, <<Lit(<<"t", "u", "e">>)>>, <<Lit(<<"w", "e", "d">>)>>, <<Lit(<<"t", "h", "u">>), Opt(<<Lit(<<"r">>)>>)>>, <<Lit(<<"f", "r", "i">>)>>, <<Lit(<<"s", "a", "t">>)>>, <<Lit(<<"s", "u", "n">>)>>>>)>>)>>],
     [key |-> "weekdays",
      p |-> <<Lit(<<"w", "e", "e", "k", "d", "a", "y">>), Opt(<<Lit(<<"s">>)>>)>>],
     [key |-> "public_holiday",
      p |-> <<Alt(<<<<Lit(<<"p", "u", "b", "l", "i", "c">>), Ws1, Lit(<<"h", "o", "l", "i", "d", "a", "y">>)>>, <<Lit(<<"p", "h">>)>>, <<Lit(<<"p", "u", "b", "l", "i", "c">>), Ws1, Lit(<<"h", "o", "l">>), Opt(<<Lit(<<"i", "d", "a", "y">>)>>)>>>>)>>],
     [key |-> "eve_of_ph",
      p |-> <<Lit(<<"e", "v", "e">>), Ws1, Lit(<<"o", "f">>), Ws1, Alt(<<<<Lit(<<"p", "u", "b", "l", "i", "c">>), Ws1, Lit(<<"h", "o", "l", "i", "d", "a", "y">>)>>, <<Lit(<<"p", "h">>)>>>>)>>],
     [key |-> "monday",
      p |-> <<Wb, Lit(<<"m", "o", "n">>), Opt(<<Lit(<<"d", "a", "y">>)>>), Wb>>],
     [key |-> "tuesday",
      p |-> <<Wb, Lit(<<"t", "u", "e">>), Opt(<<Lit(<<"s">>), Opt(<<Lit(<<"d", "a", "y">>)>>)>>), Wb>>],
     [key |-> "wednesday",
      p |-> <<Wb, Lit(<<"w", "e", "d">>), Opt(<<Lit(<<"n", "e", "s", "d", "a", "y">>)>>), Wb>>],
     [key |-> "thursday",
      p |-> <<Wb, Lit(<<"t", "h", "u">>), Opt(<<Lit(<<"r">>), Opt(<<Lit(<<"s">>), Opt(<<Lit(<<"d", "a", "y">>)>>)>>)>>), Wb>>],
     [key |-> "friday",
      p |-> <<Wb, Lit(<<"f", "r", "i">>), Opt(<<Lit(<<"d", "a", "y">>)>>), Wb>>],
     [key |-> "saturday",
      p |-> <<Wb, Lit(<<"s", "a", "t">>), Opt(<<Lit(<<"u", "r", "d", "a", "y">>)>>), Wb>>],
     [key |-> "sunday",
      p |-> <<Wb, Lit(<<"s", "u", "n">>), Opt(<<Lit(<<"d", "a", "y">>)>>), Wb>>]
  >>

\* time_patterns, in the order of the list: the two groups, what separates
\* them, and whether the lookahead (?=\s|,|;|$) closes the pattern
TimePatterns ==
  <<
     [g1 |-> <<Digits(1, 2), Opt(<<Lit(<<":">>), Digits(2, 2)>>), Ws0, Alt(<<<<Lit(<<"a", "m">>)>>, <<Lit(<<"p", "m">>)>>>>)>>,
      sep |-> <<Ws0, Alt(<<<<Lit(<<"-">>)>>, <<Lit(<<"t", "o">>)>>>>), Ws0>>,
      g2 |-> <<Digits(1, 2), Opt(<<Lit(<<":">>), Digits(2, 2)>>), Ws0, Alt(<<<<Lit(<<"a", "m">>)>>, <<Lit(<<"p", "m">>)>>>>)>>,
      lookahead |-> FALSE],
     [g1 |-> <<Digits(4, 4)>>,
      sep |-> <<Ws0, Lit(<<"-">>), Ws0>>,
      g2 |-> <<Digits(4, 4)>>,
      lookahead |-> FALSE],
     [g1 |-> <<Digits(4, 4)>>,
      sep |-> <<Ws1, Lit(<<"t", "o">>), Ws1>>,
      g2 |-> <<Digits(4, 4)>>,
      lookahead |-> FALSE],
     [g1 |-> <<Digits(1, 2)>>,
      sep |-> <<Ws1, Lit(<<"t", "o">>), Ws1>>,
      g2 |-> <<Digits(1, 2)>>,
      lookahead |-> TRUE]
  >>

HalfDayEtc ==
  <<Alt(<<<<Lit(<<"h", "a", "l", "f">>), Ws1, Lit(<<"d", "a", "y">>)>>, <<Lit(<<"a", "p", "p", "o", "i", "n", "t", "m", "e", "n", "t">>)>>, <<Lit(<<"c", "l", "o", "s", "e", "d">>)>>>>)>>

\* normalize_single_time, the branch of a time that holds AM or PM
AmPm == <<Alt(<< <<Lit(<<"a", "m">>)>>, <<Lit(<<"p", "m">>)>> >>)>>
DigitCount(s) == Cardinality({i \in 1..Len(s) : IsDigit(s[i])})
\* re.match(r'(\d{1,2})(\d{2})\s*(am|pm)', time_str): the length of the first
\* group, the longer one tried first; 0 when the expression does not match
GroupOneLen(lt) ==
  LET ok == {n \in {1, 2} : /\ DigitRun(lt, 1, n + 2)
                            /\ Ends(lt, {n + 3}, <<Ws0>> \o AmPm) # {}}
  IN  IF ok = {} THEN 0 ELSE Largest(ok)
SuffixAt(lt, i) ==
  Smallest({j \in Ends(lt, {i}, <<Ws0>>) : Ends(lt, {j}, AmPm) # {}})
InsertColon(s, n, j) ==
  SubSeq(s, 1, n) \o <<":">> \o SubSeq(s, n + 1, n + 2) \o Upper(SubSeq(s, j, j + 1))
AmPmTime(s, lt, n) ==
  IF n = 0 THEN Upper(s) ELSE InsertColon(s, n, SuffixAt(lt, n + 3))
DigitsOnly(s) == SelectSeq(s, IsDigit)
FourDigits(d) ==
  ZeroPad(Prefix(IF Len(d) = 3 THEN <<"0">> \o d
                 ELSE IF Len(d) = 2 THEN d \o <<"0", "0">>
                 ELSE IF Len(d) = 1 THEN <<"0">> \o d \o <<"0", "0">>
                 ELSE d, 4), 4)
SingleTime(s) ==
  IF Search(Lower(s), AmPm)
  THEN IF (\A i \in 1..Len(s) : s[i] # ":") /\ DigitCount(s) >= 3
       THEN AmPmTime(s, Lower(s), GroupOneLen(Lower(s)))
       ELSE Upper(s)
  ELSE FourDigits(DigitsOnly(s))
normalize_single_time(time_str) == SingleTime(Strip(time_str))
normalize_time_range(start, end) ==
  normalize_single_time(start) \o <<"-">> \o normalize_single_time(end)

\* The matches of a time pattern that start at s: <<end of group 1, start of
\* group 2, end of group 2>>
Lookahead(lt, c, needed) ==
  ~needed \/ c > Len(lt) \/ lt[c] \in {" ", ",", ";"}
GroupTwo(lt, a, b, tp) ==
  {<<a, b, c>> : c \in {x \in Ends(lt, {b}, tp.g2) : Lookahead(lt, x, tp.lookahead)}}
AfterGroupOne(lt, a, tp) ==
  UNION {GroupTwo(lt, a, b, tp) : b \in Ends(lt, {a}, tp.sep)}
TimeMatches(lt, s, tp) ==
  UNION {AfterGroupOne(lt, a, tp) : a \in Ends(lt, {s}, tp.g1)}
\* the quantifiers are greedy: the longest first group, then the longest match
BestMatch(M) ==
  CHOOSE m \in M : \A n \in M : m[1] > n[1] \/ (m[1] = n[1] /\ m[3] >= n[3])
TimeStarts(lt, pos, tp) == {s \in pos..Len(lt) : TimeMatches(lt, s, tp) # {}}

\* re.finditer(time_pattern, time_str, re.IGNORECASE), each match normalized
RECURSIVE FindIter(_, _, _, _)
RECURSIVE FromStarts(_, _, _, _)
RECURSIVE FromMatch(_, _, _, _, _)
FromMatch(t, lt, tp, s, m) ==
  <<normalize_time_range(SubSeq(t, s, m[1] - 1), SubSeq(t, m[2], m[3] - 1))>>
  \o FindIter(t, lt, m[3], tp)
FromStarts(t, lt, tp, starts) ==
  IF starts = {} THEN <<>>
  ELSE FromMatch(t, lt, tp, Smallest(starts),
                 BestMatch(TimeMatches(lt, Smallest(starts), tp)))
FindIter(t, lt, pos, tp) == FromStarts(t, lt, tp, TimeStarts(lt, pos, tp))

\* time_ranges: for each time pattern in turn, every match in the text
TimeRangesOf(t, lt) ==
  FindIter(t, lt, 1, TimePatterns[1]) \o FindIter(t, lt, 1, TimePatterns[2])
  \o FindIter(t, lt, 1, TimePatterns[3]) \o FindIter(t, lt, 1, TimePatterns[4])
RECURSIVE JoinWith(_, _)
JoinWith(parts, sep) ==
  IF parts = <<>> THEN <<>>
  ELSE IF Len(parts) = 1 THEN Head(parts)
  ELSE Head(parts) \o sep \o JoinWith(Tail(parts), sep)
\* final_time: None is PyNone
FinalOf(time_str, time_ranges) ==
  IF time_ranges # <<>> THEN PyStr(JoinWith(time_ranges, <<",">>))
  ELSE IF Search(Lower(time_str), HalfDayEtc) THEN PyStr(time_str)
  ELSE PyNone
FinalTime(time_str) == FinalOf(time_str, TimeRangesOf(time_str, Lower(time_str)))

\* result of extract_hours_from_remarks without its metadata, which
\* combine_operating_hours_flexible does not read
NoHours ==
  [weekdays |-> PyNone, saturday |-> PyNone, sunday |-> PyNone, publicday |-> PyNone]
Store(result, day_key, day_str, final_time) ==
  IF ~Truthy(final_time) THEN result
  ELSE IF day_key \in {"mon_to_fri", "mon_to_wed", "thu_to_fri", "weekdays"}
    THEN [result EXCEPT !.weekdays = final_time]
  ELSE IF day_key = "saturday" THEN [result EXCEPT !.saturday = final_time]
  ELSE IF day_key = "sunday" THEN [result EXCEPT !.sunday = final_time]
  ELSE IF day_key \in {"public_holiday", "eve_of_ph"}
    THEN [result EXCEPT !.publicday = final_time]
  ELSE IF day_key = "day_combo"
    THEN IF Contains(day_str, <<"s", "a", "t">>) /\ Contains(day_str, <<"s", "u", "n">>)
         THEN [result EXCEPT !.saturday = final_time, !.sunday = final_time]
         ELSE [result EXCEPT !.weekdays = final_time]
  ELSE IF day_key \in {"monday", "tuesday", "wednesday", "thursday", "friday"}
    THEN IF ~Truthy(result.weekdays)
         THEN [result EXCEPT !.weekdays = final_time]
         ELSE result
  ELSE result

\* re.search(f'({day_pattern})\\s*:\\s*([^;\\n]+)', segment, re.IGNORECASE):
\* the colon that closes a match of the day pattern starting at s
ColonsAfter(lt, s, p) ==
  {c \in Ends(lt, {s}, p \o <<Ws0>>) : c < Len(lt) /\ lt[c] = ":"}
DayStarts(lt, p) == {s \in 1..Len(lt) : ColonsAfter(lt, s, p) # {}}
MatchColon(result, segment, lt, dp, s, c) ==
  Store(result, dp.key, Strip(SubSeq(lt, s, c - 1)),
        FinalTime(Strip(SubSeq(segment, c + 1, Len(segment)))))
MatchDay(result, segment, lt, dp, starts) ==
  IF starts = {} THEN result
  ELSE MatchColon(result, segment, lt, dp, Smallest(starts),
                  Smallest(ColonsAfter(lt, Smallest(starts), dp.p)))
RECURSIVE OverDayPatterns(_, _, _, _)
OverDayPatterns(result, segment, lt, i) ==
  IF i > Len(DayPatterns) THEN result
  ELSE OverDayPatterns(
         MatchDay(result, segment, lt, DayPatterns[i], DayStarts(lt, DayPatterns[i].p)),
         segment, lt, i + 1)

\* re.split(r'[;\n]', text)
RECURSIVE SplitFrom(_, _)
SplitFrom(text, acc) ==
  IF text = <<>> THEN <<acc>>
  ELSE IF Head(text) \in {";", "\n"} THEN <<acc>> \o SplitFrom(Tail(text), <<>>)
  ELSE SplitFrom(Tail(text), Append(acc, Head(text)))
Segments(text) == SplitFrom(text, <<>>)
RECURSIVE OverSegments(_, _)
OverSegments(result, segments) ==
  IF segments = <<>> THEN result
  ELSE IF Strip(Head(segments)) = <<>> THEN OverSegments(result, Tail(segments))
  ELSE OverSegments(
         OverDayPatterns(result, Strip(Head(segments)), Lower(Strip(Head(segments))), 1),
         Tail(segments))

\* re.sub(r'^\(dental\)\s*', '', text, flags=re.IGNORECASE), then the same
\* for '(DENTAL)' without the flag
DropDental(text) ==
  IF Prefix(Lower(text), 8) = <<"(", "d", "e", "n", "t", "a", "l", ")">> THEN LStrip(SubSeq(text, 9, Len(text)))
  ELSE text
DropDentalUpper(text) ==
  IF Prefix(text, 8) = <<"(", "D", "E", "N", "T", "A", "L", ")">> THEN LStrip(SubSeq(text, 9, Len(text)))
  ELSE text
extract_hours_from_remarks(remarks_text) ==
  IF IsNone(remarks_text) \/ Strip(remarks_text.s) = <<>> THEN NoHours
  ELSE OverSegments(NoHours,
                    Segments(DropDentalUpper(DropDental(Strip(remarks_text.s)))))

ClosedText == <<"C", "L", "O", "S", "E", "D">>
AllClosed == ClosedText \o <<"/">> \o ClosedText \o <<"/">> \o ClosedText
DayTypes == {"weekday", "saturday", "sunday", "public_holiday"}
\* complex_keys
ComplexKeys(day_type) ==
  CASE day_type = "weekday" -> <<"mon_fri_am", "mon_fri_pm", "mon_fri_night">>
    [] day_type = "saturday" -> <<"sat_am", "sat_pm", "sat_night">>
    [] day_type = "sunday" -> <<"sun_am", "sun_pm", "sun_night">>
    [] day_type = "public_holiday" -> <<"holiday_am", "holiday_pm", "holiday_night">>
\* simple_key
SimpleKey(day_type) ==
  CASE day_type = "weekday" -> "mon_fri_am"
    [] day_type = "saturday" -> "sat_simple"
    [] day_type = "sunday" -> "sun_simple"
    [] day_type = "public_holiday" -> "holiday_simple"
\* extracted.get(fallback_map[day_type])
FallbackValue(extracted, day_type) ==
  CASE day_type = "weekday" -> extracted.weekdays
    [] day_type = "saturday" -> extracted.saturday
    [] day_type = "sunday" -> extracted.sunday
    [] day_type = "public_holiday" -> extracted.publicday

\* _is_truly_empty
is_truly_empty(value) ==
  \/ IsNone(value)
  \/ Lower(Strip(StrOf(value))) \in {<<>>, <<"n", "a", "n">>, <<"n", "o", "n", "e">>}

\* row.get(label, default); a row is a dictionary from column labels to cells
RowGet(row, label, default) ==
  IF DictHas(row, label) THEN DictGet(row, label) ELSE default
\* 'CLOSED' if pd.isna(v) else str(v)
ClosedIfNa(v) == IF IsNone(v) THEN ClosedText ELSE v.s
\* am, pm, night of the complex form
SubColumn(row, col_map, key) ==
  ClosedIfNa(IF DictHas(col_map, key)
             THEN RowGet(row, DictGet(col_map, key), PyStr(ClosedText))
             ELSE PyStr(ClosedText))
ComplexForm(row, col_map, keys) ==
  SubColumn(row, col_map, keys[1]) \o <<"/">> \o SubColumn(row, col_map, keys[2])
  \o <<"/">> \o SubColumn(row, col_map, keys[3])
\* has_complex
HasComplex(col_map, keys) ==
  Cardinality({i \in 1..Len(keys) : DictHas(col_map, keys[i])}) > 1
\* for key_to_check in [simple_key] + list(complex_keys): the first mapped key
KeysToCheck(day_type) == <<SimpleKey(day_type)>> \o ComplexKeys(day_type)
MappedKeys(col_map, keys) == {i \in 1..Len(keys) : DictHas(col_map, keys[i])}
SimpleForm(row, col_map, keys, found) ==
  IF found = {} THEN ClosedText
  ELSE ClosedIfNa(RowGet(row, DictGet(col_map, keys[Smallest(found)]), PyStr(ClosedText)))
\* strategies 1 to 3
DayColumns(row, col_map, day_type) ==
  IF HasComplex(col_map, ComplexKeys(day_type))
  THEN ComplexForm(row, col_map, ComplexKeys(day_type))
  ELSE SimpleForm(row, col_map, KeysToCheck(day_type),
                  MappedKeys(col_map, KeysToCheck(day_type)))
\* strategy 4, the fallback to the remarks
PickFallback(current_result, fallback_value) ==
  IF Truthy(fallback_value) THEN fallback_value.s ELSE current_result
FromRemarks(current_result, remarks, day_type) ==
  IF IsNone(remarks) THEN current_result
  ELSE PickFallback(current_result,
                    FallbackValue(extract_hours_from_remarks(remarks), day_type))
RemarksFallback(current_result, row, col_map, day_type) ==
  IF is_truly_empty(PyStr(current_result)) /\ DictHas(col_map, "remarks")
  THEN FromRemarks(current_result, RowGet(row, DictGet(col_map, "remarks"), PyNone),
                   day_type)
  ELSE current_result
CombineRow(row, col_map, day_type) ==
  RemarksFallback(DayColumns(row, col_map, day_type), row, col_map, day_type)
combine_operating_hours_flexible(df_source, col_map, day_type) ==
  IF day_type \notin DayTypes THEN [i \in 1..Len(df_source) |-> AllClosed]
  ELSE [i \in 1..Len(df_source) |-> CombineRow(df_source[i], col_map, day_type)]

\* ---- the calls of combine_operating_hours_flexible that are checked ----
MaxHourRows == 1

RemarksMonFri == PyStr(<<"M", "o", "n", "-", "F", "r", "i", ":", "0", "9", "0", "0", "-", "1", "2", "3", "0", ",", "1", "4", "0", "0", "-", "1", "6", "0", "0", ";", "S", "a", "t", "/", "S", "u", "n", ":", "0", "9", "0", "0", "-", "1", "2", "0", "0">>)
HoursRow(am, pm, night, hours, remarks) ==
  << [k |-> "AM", v |-> am], [k |-> "PM", v |-> pm], [k |-> "NIGHT", v |-> night],
     [k |-> "HOURS", v |-> hours], [k |-> "REMARKS", v |-> remarks] >>
HoursRowLib ==
  {
    HoursRow(PyStr(<<"0", "9", "0", "0", "-", "1", "2", "0", "0">>),
             PyNone,
             PyNone,
             PyNone,
             PyNone),
    HoursRow(PyNone,
             PyNone,
             PyNone,
             PyNone,
             PyNone),
    HoursRow(PyStr(<<" ">>),
             PyStr(<<"1", "4", "0", "0", "-", "1", "7", "0", "0">>),
             PyNone,
             PyStr(<<>>),
             RemarksMonFri),
    HoursRow(PyNone,
             PyNone,
             PyNone,
             PyNone,
             RemarksMonFri),
    HoursRow(PyStr(<<"C", "L", "O", "S", "E", "D">>),
             PyStr(<<"C", "L", "O", "S", "E", "D">>),
             PyNone,
             PyStr(<<"C", "L", "O", "S", "E", "D">>),
             RemarksMonFri),
    HoursRow(PyStr(<<"0", "9", "0", "0", "-", "1", "2", "0", "0">>),
             PyNone,
             PyStr(<<"1", "8", "0", "0", "-", "2", "1", "0", "0">>),
             PyStr(<<"0", "9", "0", "0", "-", "1", "7", "0", "0">>),
             RemarksMonFri),
    HoursRow(PyStr(<<>>),
             PyNone,
             PyNone,
             PyStr(<<>>),
             PyStr(<<"P", "H", ":", " ", "C", "l", "o", "s", "e", "d">>)),
    HoursRow(PyNone,
             PyStr(<<"n", "a", "n">>),
             PyNone,
             PyStr(<<"n", "a", "n">>),
             PyStr(<<"M", "o", "n", " ", "-", " ", "W", "e", "d", " ", ":", " ", "1", "0", "3", "0", " ", "t", "o", " ", "2", "2", "0", "0">>)),
    HoursRow(PyNone,
             PyNone,
             PyNone,
             PyStr(<<" ">>),
             PyStr(<<"n", "o", " ", "h", "o", "u", "r", "s", " ", "h", "e", "r", "e">>))
  }
HoursFrames == UNION {[1..n -> HoursRowLib] : n \in 1..MaxHourRows}

\* which of the AM, PM, NIGHT, single-column and remarks keys a mapping holds
SlotChoices ==
  { {"am", "pm", "night"}, {"am", "pm", "night", "remarks"}, {"am", "pm"},
    {"am", "pm", "remarks"}, {"am"}, {"am", "remarks"}, {"simple"},
    {"simple", "remarks"}, {"remarks"}, {} }
PutIf(d, cond, k, v) == IF cond THEN DictPut(d, k, v) ELSE d
DayEntries(d, slots, day_type) ==
  PutIf(PutIf(PutIf(PutIf(d, "am" \in slots, ComplexKeys(day_type)[1], "AM"),
                    "pm" \in slots, ComplexKeys(day_type)[2], "PM"),
              "night" \in slots, ComplexKeys(day_type)[3], "NIGHT"),
        "simple" \in slots, SimpleKey(day_type), "HOURS")
ColMapOf(slots) ==
  PutIf(DayEntries(DayEntries(DayEntries(DayEntries(<<>>, slots, "weekday"),
                                         slots, "saturday"),
                              slots, "sunday"),
                   slots, "public_holiday"),
        "remarks" \in slots, "remarks", "REMARKS")
HoursInputs ==
  {[df_source |-> df, col_map |-> ColMapOf(slots), day_type |-> d] :
     df \in HoursFrames, slots \in SlotChoices, d \in DayTypes \cup {"weekend"}}

InitHours ==
  /\ GeoIdle
  /\ LoadIdle
  /\ BookIdle
  /\ fn \in {Pending(x) : x \in HoursInputs}
  /\ BatchIdle

CombineOperatingHours ==
  /\ fn.name = "pending"
  /\ fn' = [name |-> "combine_operating_hours_flexible",
            arg |-> fn.arg,
            res |-> combine_operating_hours_flexible(fn.arg.df_source, fn.arg.col_map,
                                                     fn.arg.day_type)]
  /\ UNCHANGED <<geoVars, loadVars, bookVars, batchVars>>

NextHours == CombineOperatingHours

SpecHours == InitHours /\ [][NextHours]_vars

\* the last application of combine_operating_hours_flexible
HoursCall == fn.name = "combine_operating_hours_flexible"
\* the cell under a key: missing when the key is unmapped
CellUnder(row, col_map, key) ==
  IF DictHas(col_map, key) THEN RowGet(row, DictGet(col_map, key), PyNone) ELSE PyNone
BlankCell(v) == IsNone(v) \/ Strip(v.s) = <<>>
ClosedIfBlank(v) == IF BlankCell(v) THEN ClosedText ELSE v.s
AmPmNight(row, col_map, keys) ==
  ClosedIfBlank(CellUnder(row, col_map, keys[1])) \o <<"/">>
  \o ClosedIfBlank(CellUnder(row, col_map, keys[2])) \o <<"/">>
  \o ClosedIfBlank(CellUnder(row, col_map, keys[3]))
ComplexCall ==
  /\ HoursCall
  /\ fn.arg.day_type \in DayTypes
  /\ HasComplex(fn.arg.col_map, ComplexKeys(fn.arg.day_type))

\* C17: in the complex form (at least two of the AM, PM and NIGHT keys of the
\* day category mapped) the hours of every row are 'AM/PM/NIGHT', where a
\* sub-column that is unmapped, missing or blank reads CLOSED and any other
\* sub-column reads its cell.
C17_ComplexForm ==
  ComplexCall
  => \A i \in 1..Len(fn.res) :
       fn.res[i] = AmPmNight(fn.arg.df_source[i], fn.arg.col_map,
                             ComplexKeys(fn.arg.day_type))

\* the single hours cell of the simple form
SimpleCall ==
  /\ HoursCall
  /\ fn.arg.day_type \in DayTypes
  /\ ~HasComplex(fn.arg.col_map, ComplexKeys(fn.arg.day_type))
  /\ MappedKeys(fn.arg.col_map, KeysToCheck(fn.arg.day_type)) # {}
  /\ DictHas(fn.arg.col_map, "remarks")
HoursCell(row, col_map, keys) ==
  CellUnder(row, col_map, keys[Smallest(MappedKeys(col_map, keys))])
MinedHours(row, col_map, day_type) ==
  FallbackValue(extract_hours_from_remarks(CellUnder(row, col_map, "remarks")),
                day_type)
ExplicitClosed(v) == ~IsNone(v) /\ Upper(Strip(v.s)) = ClosedText
FallbackAsClaimed(res, cell, mined) ==
  /\ (BlankCell(cell) /\ Truthy(mined)) => res = mined.s
  /\ ExplicitClosed(cell) => res = cell.s

\* C18: when the hours cell of a row is missing or blank and a remarks column
\* is mapped, the hours of the row are those mined from the remarks for the day
\* category (when the remarks give any); a cell that reads CLOSED is kept.
C18_RemarksFallback ==
  SimpleCall
  => \A i \in 1..Len(fn.res) :
       FallbackAsClaimed(
         fn.res[i],
         HoursCell(fn.arg.df_source[i], fn.arg.col_map, KeysToCheck(fn.arg.day_type)),
         MinedHours(fn.arg.df_source[i], fn.arg.col_map, fn.arg.day_type))


\* ---------------------------------------------------------------------
\* The country of a row: extract_postal_code and detect_country
\* ---------------------------------------------------------------------

SingaporeWord == <<"s", "i", "n", "g", "a", "p", "o", "r", "e">>
\* malaysian_indicators of extract_postal_code
MalaysianIndicators ==
  << <<"m", "a", "l", "a", "y", "s", "i", "a">>,
     <<"j", "o", "h", "o", "r">>,
     <<"k", "u", "a", "l", "a", " ", "l", "u", "m", "p", "u", "r">>,
     <<"s", "e", "l", "a", "n", "g", "o", "r">>,
     <<"p", "e", "n", "a", "n", "g">>,
     <<"p", "e", "r", "a", "k">>,
     <<"k", "e", "d", "a", "h">>,
     <<"k", "e", "l", "a", "n", "t", "a", "n">>,
     <<"t", "e", "r", "e", "n", "g", "g", "a", "n", "u">>,
     <<"p", "a", "h", "a", "n", "g">>,
     <<"n", "e", "g", "e", "r", "i", " ", "s", "e", "m", "b", "i", "l", "a", "n">>,
     <<"m", "e", "l", "a", "k", "a">>,
     <<"s", "a", "b", "a", "h">>,
     <<"s", "a", "r", "a", "w", "a", "k">>,
     <<"p", "e", "r", "l", "i", "s">>,
     <<"p", "u", "t", "r", "a", "j", "a", "y", "a">>,
     <<"l", "a", "b", "u", "a", "n">>,
     <<"k", "u", "l", "a", "i">>,
     <<"s", "k", "u", "d", "a", "i">>,
     <<"p", "a", "s", "i", "r", " ", "g", "u", "d", "a", "n", "g">>,
     <<"u", "l", "u", " ", "t", "i", "r", "a", "m">>,
     <<"m", "a", "s", "a", "i">>,
     <<"g", "e", "l", "a", "n", "g", " ", "p", "a", "t", "a", "h">>,
     <<"j", "o", "h", "o", "r", " ", "b", "a", "h", "r", "u">>,
     <<"k", "l">>,
     <<"s", "h", "a", "h", " ", "a", "l", "a", "m">>,
     <<"p", "e", "t", "a", "l", "i", "n", "g", " ", "j", "a", "y", "a">>,
     <<"b", "a", "n", "d", "a", "r">>,
     <<"t", "a", "m", "a", "n">> >>
\* multi_word_indicators of detect_country
MultiWordIndicators ==
  << <<"k", "u", "a", "l", "a", " ", "l", "u", "m", "p", "u", "r">>,
     <<"j", "o", "h", "o", "r", " ", "b", "a", "h", "r", "u">>,
     <<"n", "e", "g", "e", "r", "i", " ", "s", "e", "m", "b", "i", "l", "a", "n">>,
     <<"s", "h", "a", "h", " ", "a", "l", "a", "m">>,
     <<"p", "e", "t", "a", "l", "i", "n", "g", " ", "j", "a", "y", "a">>,
     <<"j", "o", "h", "o", "r", " ", "d", "a", "r", "u", "l">>,
     <<"i", "s", "k", "a", "n", "d", "a", "r", " ", "p", "u", "t", "e", "r", "i">>,
     <<"t", "a", "m", "a", "n", " ", "d", "a", "y", "a">>,
     <<"b", "a", "n", "d", "a", "r", " ", "i", "n", "d", "a", "h", "p", "u", "r", "a">>,
     <<"u", "l", "u", " ", "t", "i", "r", "a", "m">> >>
\* single_word_indicators of detect_country
SingleWordIndicators ==
  << <<"m", "a", "l", "a", "y", "s", "i", "a">>,
     <<"j", "o", "h", "o", "r">>,
     <<"s", "e", "l", "a", "n", "g", "o", "r">>,
     <<"p", "e", "n", "a", "n", "g">>,
     <<"p", "e", "r", "a", "k">>,
     <<"k", "e", "d", "a", "h">>,
     <<"k", "e", "l", "a", "n", "t", "a", "n">>,
     <<"t", "e", "r", "e", "n", "g", "g", "a", "n", "u">>,
     <<"p", "a", "h", "a", "n", "g">>,
     <<"m", "e", "l", "a", "k", "a">>,
     <<"s", "a", "b", "a", "h">>,
     <<"s", "a", "r", "a", "w", "a", "k">>,
     <<"p", "e", "r", "l", "i", "s">>,
     <<"p", "u", "t", "r", "a", "j", "a", "y", "a">>,
     <<"l", "a", "b", "u", "a", "n">>,
     <<"k", "u", "l", "a", "i">>,
     <<"s", "k", "u", "d", "a", "i">>,
     <<"s", "e", "n", "a", "i">>,
     <<"p", "a", "s", "i", "r", " ", "g", "u", "d", "a", "n", "g">>,
     <<"p", "o", "n", "t", "i", "a", "n">>,
     <<"b", "a", "t", "u", " ", "p", "a", "h", "a", "t">>,
     <<"m", "u", "a", "r">>,
     <<"s", "e", "g", "a", "m", "a", "t">>,
     <<"k", "l", "u", "a", "n", "g">>,
     <<"k", "o", "t", "a", " ", "t", "i", "n", "g", "g", "i">> >>
AnyContained(text, words) == \E i \in 1..Len(words) : Contains(text, words[i])
\* re.search(r'\b' + re.escape(indicator) + r'\b', address_lower)
WholeWord(text, word) == Search(text, <<Wb, Lit(word), Wb>>)
AnyWholeWord(text, words) == \E i \in 1..Len(words) : WholeWord(text, words[i])
\* has_5_digit, has_6_digit
HasDigitRun(text, n) == Search(text, <<Wb, Digits(n, n), Wb>>)

\* extract_postal_code: the country when the caller gives none
InferredCountry(address_str) ==
  IF Contains(Lower(address_str), SingaporeWord) THEN "SINGAPORE"
  ELSE IF \/ AnyContained(Lower(address_str), MalaysianIndicators)
          \/ (HasDigitRun(address_str, 5) /\ ~HasDigitRun(address_str, 6))
    THEN "MALAYSIA"
  ELSE "SINGAPORE"

\* where the digit group of a match that starts at s begins: the group is n
\* digits, after pre and before post
GroupStarts(lt, s, pre, n, post) ==
  {a \in Ends(lt, {s}, pre) : DigitRun(lt, a, n) /\ Ends(lt, {a + n}, post) # {}}
MatchStarts(lt, pre, n, post) ==
  {s \in 1..(Len(lt) + 1) : GroupStarts(lt, s, pre, n, post) # {}}
GroupAt(t, a, n) == PyStr(SubSeq(t, a, a + n - 1))
\* the group of the first match
FirstGroup(t, lt, pre, n, post, starts) ==
  GroupAt(t, Largest(GroupStarts(lt, Smallest(starts), pre, n, post)), n)
\* the group of the last match
LastGroup(t, lt, pre, n, post, starts) ==
  GroupAt(t, Largest(GroupStarts(lt, Largest(starts), pre, n, post)), n)

\* country == 'SINGAPORE'
SingaporeKeyword == <<Lit(SingaporeWord), Ws1>>
\* (mutant) the fallback returns the first standalone run
SingaporePostalFirst(t, lt) ==
  IF MatchStarts(lt, SingaporeKeyword, 6, <<>>) # {}
    THEN FirstGroup(t, lt, SingaporeKeyword, 6, <<>>,
                    MatchStarts(lt, SingaporeKeyword, 6, <<>>))
  ELSE IF MatchStarts(lt, <<Wb>>, 6, <<Wb>>) # {}
    THEN FirstGroup(t, lt, <<Wb>>, 6, <<Wb>>, MatchStarts(lt, <<Wb>>, 6, <<Wb>>))
  ELSE PyNone
SingaporePostal(t, lt) ==
  IF MatchStarts(lt, SingaporeKeyword, 6, <<>>) # {}
    THEN FirstGroup(t, lt, SingaporeKeyword, 6, <<>>,
                    MatchStarts(lt, SingaporeKeyword, 6, <<>>))
  ELSE IF MatchStarts(lt, <<Wb>>, 6, <<Wb>>) # {}
    THEN LastGroup(t, lt, <<Wb>>, 6, <<Wb>>, MatchStarts(lt, <<Wb>>, 6, <<Wb>>))
  ELSE PyNone

\* country == 'MALAYSIA': patterns, each a 5-digit group between two parts
EndTokens ==
  <<Ws0, Alt(<< <<AtEnd>>, <<Lit(<<",">>)>>,
                <<Ws1, Alt(<< <<Lit(<<"j", "o", "h", "o", "r">>)>>, <<Lit(<<"s", "e", "l", "a", "n", "g", "o", "r">>)>>,
                              <<Lit(<<"m", "a", "l", "a", "y", "s", "i", "a">>)>> >>)>> >>)>>
MalaysiaPatterns ==
  << [pre |-> <<Wb>>, post |-> <<Wb>>],
     [pre |-> <<Wb, AlphaBlank1, Ws1>>, post |-> <<>>],
     [pre |-> <<Lit(<<",">>), Ws0>>, post |-> <<Ws0, AtEnd>>],
     [pre |-> <<>>, post |-> EndTokens],
     [pre |-> <<>>, post |-> <<>>] >>
RECURSIVE MalaysiaPostal(_, _, _)
MalaysiaPostal(t, lt, i) ==
  IF i > Len(MalaysiaPatterns) THEN PyNone
  ELSE IF MatchStarts(lt, MalaysiaPatterns[i].pre, 5, MalaysiaPatterns[i].post) # {}
    THEN FirstGroup(t, lt, MalaysiaPatterns[i].pre, 5, MalaysiaPatterns[i].post,
                    MatchStarts(lt, MalaysiaPatterns[i].pre, 5, MalaysiaPatterns[i].post))
  ELSE MalaysiaPostal(t, lt, i + 1)

PostalFor(address_str, country) ==
  IF country = "SINGAPORE" THEN SingaporePostal(address_str, Lower(address_str))
  ELSE IF country = "MALAYSIA" THEN MalaysiaPostal(address_str, Lower(address_str), 1)
  ELSE PyNone
extract_postal_code(address, country) ==
  IF IsNone(address) THEN PyNone
  ELSE PostalFor(Strip(address.s),
                 IF country = NoCountry THEN InferredCountry(Strip(address.s))
                 ELSE country)

\* detect_country of transform_sheet
DetectLower(address_lower) ==
  IF Contains(address_lower, SingaporeWord) THEN "SINGAPORE"
  ELSE IF AnyContained(address_lower, MultiWordIndicators) THEN "MALAYSIA"
  ELSE IF AnyWholeWord(address_lower, SingleWordIndicators) THEN "MALAYSIA"
  ELSE IF WholeWord(address_lower, <<"k", "l">>) THEN "MALAYSIA"
  ELSE "SINGAPORE"
detect_country(address) ==
  IF IsNone(address) \/ Strip(address.s) = <<>> THEN "SINGAPORE"
  ELSE DetectLower(Lower(address.s))
\* combined_address of detect_country_from_row: the transformed row has no
\* Region field
CombinedAddress(row) ==
  JoinWith(<<StrOf(row.Zone), <<>>, StrOf(row.Area), StrOf(row.Address1),
             StrOf(row.Address2), StrOf(row.Address3), StrOf(row.PostalCode)>>,
           <<" ">>)
detect_country_from_row(row) == detect_country(PyStr(CombinedAddress(row)))

\* The postal code of a row of a sheet without an address4 column: the
\* dedicated column when it holds a value, else the code found in Address1
ExtractionRuns(row) ==
  /\ ~PostalCellUsable(row.postal_col)
  /\ ~IsNone(row.Address1) /\ Strip(row.Address1.s) # <<>>
RowPostalCode(row) ==
  IF PostalCellUsable(row.postal_col) THEN PyStr(Strip(row.postal_col.s))
  ELSE IF ExtractionRuns(row) THEN extract_postal_code(row.Address1, NoCountry)
  ELSE PyNone
WithPostalCode(row, postal_code) ==
  [Zone |-> row.Zone, Area |-> row.Area, Address1 |-> row.Address1,
   Address2 |-> row.Address2, Address3 |-> row.Address3, PostalCode |-> postal_code]
\* the two decisions for one row: the country inferred while the postal code
\* is extracted (NoCountry when nothing is extracted) and the Country field
RowCountries(row, postal_code) ==
  [inferred |-> IF ExtractionRuns(row) THEN InferredCountry(Strip(row.Address1.s))
                ELSE NoCountry,
   PostalCode |-> postal_code,
   combined |-> WithPostalCode(row, postal_code),
   Country |-> detect_country_from_row(WithPostalCode(row, postal_code))]

\* ---- the rows that are checked ----
AddressLib ==
  { PyStr(<<"B", "l", "k", " ", "1", " ", "P", "e", "n", "a", "n", "g", " ", "R", "o", "a", "d", ",", " ", "S", "i", "n", "g", "a", "p", "o", "r", "e", " ", "2", "3", "8", "4", "6", "9">>),
    PyStr(<<"1", "2", " ", "J", "a", "l", "a", "n", " ", "B", "e", "s", "a", "r", " ", "8", "1", "3", "0", "0">>),
    PyStr(<<"5", " ", "T", "a", "m", "a", "n", " ", "J", "u", "r", "o", "n", "g">>),
    PyStr(<<"8", "1", "3", "0", "0", " ", "S", "k", "u", "d", "a", "i", ",", " ", "J", "o", "h", "o", "r">>),
    PyStr(<<"3", " ", "S", "e", "n", "a", "i", " ", "R", "o", "a", "d">>),
    PyStr(<<"1", " ", "O", "a", "k", "l", "a", "n", "d", " ", "A", "v", "e", " ", "5", "2", "0", "1", "2", "3">>),
    PyStr(<<"1", "0", " ", "S", "i", "n", "a", "r", "a", "n", " ", "D", "r", "i", "v", "e", " ", "3", "0", "7", "5", "0", "6">>),
    PyStr(<<"K", "u", "a", "l", "a", " ", "L", "u", "m", "p", "u", "r", " ", "5", "0", "4", "5", "0">>),
    PyStr(<<>>),
    PyStr(<<"J", "a", "l", "a", "n", " ", "1", "2", "3", "4", "5", "6", "7", " ", "K", "L">>),
    PyStr(<<"L", "o", "t", " ", "5", ",", " ", "8", "1", "2", "0", "0">>),
    PyStr(<<"L", "o", "t", " ", "8", "1", "2", "0", "0", "1", " ", "J", "o", "h", "o", "r">>),
    PyNone }
ZoneLib == {PyNone, PyStr(<<"C", "E", "N", "T", "R", "A", "L">>), PyStr(<<"J", "O", "H", "O", "R">>)}
AreaLib == {PyStr(<<"S", "I", "N", "G", "A", "P", "O", "R", "E">>), PyStr(<<"N", "o", "v", "e", "n", "a">>), PyStr(<<"S", "k", "u", "d", "a", "i">>)}
Address2Lib == {PyNone, PyStr(<<"J", "o", "h", "o", "r", " ", "B", "a", "h", "r", "u">>)}
PostalCellLib == {PyNone, PyStr(<<"8", "1", "3", "0", "0">>)}
CountryRows ==
  {[Zone |-> z, Area |-> a, Address1 |-> a1, Address2 |-> a2, Address3 |-> PyNone,
    postal_col |-> p] :
     z \in ZoneLib, a \in AreaLib, a1 \in AddressLib, a2 \in Address2Lib,
     p \in PostalCellLib}

InitCountry ==
  /\ GeoIdle
  /\ LoadIdle
  /\ BookIdle
  /\ fn \in {Pending(row) : row \in CountryRows}
  /\ BatchIdle

DetectCountries ==
  /\ fn.name = "pending"
  /\ fn' = [name |-> "detect_country", arg |-> fn.arg,
            res |-> RowCountries(fn.arg, RowPostalCode(fn.arg))]
  /\ UNCHANGED <<geoVars, loadVars, bookVars, batchVars>>

NextCountry == DetectCountries

SpecCountry == InitCountry /\ [][NextCountry]_vars

\* the decision in the order keyword, lexicon, digit runs
OrderedDecision(text, in_lexicon) ==
  IF Contains(Lower(text), SingaporeWord) THEN "SINGAPORE"
  ELSE IF in_lexicon THEN "MALAYSIA"
  ELSE IF HasDigitRun(text, 5) /\ ~HasDigitRun(text, 6) THEN "MALAYSIA"
  ELSE "SINGAPORE"
InPostalLexicon(text) == AnyContained(Lower(text), MalaysianIndicators)
InCountryLexicon(text) ==
  \/ AnyContained(Lower(text), MultiWordIndicators)
  \/ AnyWholeWord(Lower(text), SingleWordIndicators)
  \/ WholeWord(Lower(text), <<"k", "l">>)
Extracted == fn.name = "detect_country" /\ fn.res.inferred # NoCountry

\* C19: for a row whose postal code is extracted from its address, the
\* country inferred for the extraction and the Country field are each decided
\* in the order SINGAPORE keyword, Malaysian lexicon, 5-digit run without a
\* 6-digit run, else SINGAPORE, and the two are the same country.
C19_CountryDecision ==
  Extracted
  => /\ fn.res.inferred
          = OrderedDecision(Strip(fn.arg.Address1.s),
                            InPostalLexicon(Strip(fn.arg.Address1.s)))
     /\ fn.res.Country
          = OrderedDecision(CombinedAddress(fn.res.combined),
                            InCountryLexicon(CombinedAddress(fn.res.combined)))
     /\ fn.res.inferred = fn.res.Country

-----------------------------------------------------------------------------
(* SpecRuns: successive runs of transform_excel_multi_sheet in one process *)

\* format_code of format_postal_codes: a blank value becomes '', a text with
\* a decimal point that float() accepts becomes its integer part
format_code(x) ==
  IF IsNone(x) \/ Strip(StrOf(x)) \in {<<>>, <<"N", "o", "n", "e">>, <<"n", "a", "n">>}
    THEN PyStr(<<>>)
  ELSE IF DotAt(Strip(StrOf(x))) # 0 /\ ParseFloat(Strip(StrOf(x))).k = "num"
    THEN PyStr(NatToDigits(ParseFloat(Strip(StrOf(x))).n))
  ELSE PyStr(Strip(StrOf(x)))

\* ExcelTransformer.format_postal_codes over the records of one file
format_postal_codes(records) ==
  [i \in 1..Len(records) |->
     [records[i] EXCEPT !.PostalCode = format_code(@)]]

\* (mutant) the job id is written into every record of the file
OutputFileStamped(job_id, sheet_name, suffix, records) ==
  [ filename |-> <<job_id, sheet_name, suffix>>,
    records |-> [i \in 1..Len(records) |->
                   [format_postal_codes(records)[i] EXCEPT !.Code = PyStr(<<job_id>>)]] ]

\* one written file: f"{job_id}_{sanitized_name}{suffix}.xlsx" and its rows
OutputFile(job_id, sheet_name, suffix, records) ==
  [ filename |-> <<job_id, sheet_name, suffix>>,
    records |-> format_postal_codes(records) ]

\* df['Latitude'].notna().sum()
SuccessfulGeocodes(records) ==
  Len(SelectSeq(records, LAMBDA r : NotNa(r.Latitude)))

\* (mutant) the Malaysia entry repeats the sheet's termination figures
MalaysiaEntryCounted(res, df_my) ==
  [ sheet_name |-> "MALAYSIA",
    records_processed |-> Len(df_my),
    terminated_clinics_filtered |-> res.terminated_clinics_filtered,
    filtered_provider_codes |-> res.filtered_provider_codes,
    total_records |-> Len(df_my),
    successful_geocodes |-> SuccessfulGeocodes(df_my) ]

\* the entries appended to `results` for a sheet with both countries
SingaporeEntry(res, df_sg) ==
  [ sheet_name |-> "SINGAPORE",
    records_processed |-> Len(df_sg),
    terminated_clinics_filtered |-> res.terminated_clinics_filtered,
    filtered_provider_codes |-> res.filtered_provider_codes,
    total_records |-> Len(df_sg),
    successful_geocodes |-> SuccessfulGeocodes(df_sg) ]
MalaysiaEntry(res, df_my) ==
  [ sheet_name |-> "MALAYSIA",
    records_processed |-> Len(df_my),
    terminated_clinics_filtered |-> 0,
    filtered_provider_codes |-> <<>>,
    total_records |-> Len(df_my),
    successful_geocodes |-> SuccessfulGeocodes(df_my) ]
\* the entry appended for a sheet written as one file
WholeSheetEntry(res) ==
  [ sheet_name |-> res.sheet,
    records_processed |-> res.records_processed,
    terminated_clinics_filtered |-> res.terminated_clinics_filtered,
    filtered_provider_codes |-> res.filtered_provider_codes,
    total_records |-> Len(res.records),
    successful_geocodes |-> SuccessfulGeocodes(res.records) ]
\* a written file together with the entry appended to `results` for it
WithEntry(file, entry) ==
  [filename |-> file.filename, records |-> file.records, entry |-> entry]

\* the files a successful sheet yields and their result entries: one per
\* country when the sheet mixes Singapore and Malaysia, else one for the
\* whole sheet
SheetFiles(job_id, res) ==
  IF HasMixedCountries(res)
    THEN << WithEntry(OutputFile(job_id, res.sheet, "_Singapore",
                                 CountryRecords(res, "SINGAPORE")),
                      SingaporeEntry(res, CountryRecords(res, "SINGAPORE"))),
            WithEntry(OutputFile(job_id, res.sheet, "_Malaysia",
                                 CountryRecords(res, "MALAYSIA")),
                      MalaysiaEntry(res, CountryRecords(res, "MALAYSIA"))) >>
  ELSE << WithEntry(OutputFile(job_id, res.sheet, "", res.records),
                    WholeSheetEntry(res)) >>

\* the value a run returns, with the files it has written
RunOutcome(files, failed) ==
  [ success |-> failed = <<>> /\ files # <<>>,
    failed_sheet |-> failed,
    files |-> files ]

\* the loop over the panel sheets: the first sheet that fails ends the run,
\* the files written before it stay
RECURSIVE SheetLoop(_, _, _, _, _, _)
\* the loop body once transform_sheet has returned `res` for the head sheet
AfterSheet(panels, tids, job_id, service, remote, files, res) ==
  IF ~res.success THEN RunOutcome(files, <<Head(panels).name>>)
  ELSE SheetLoop(Tail(panels), TidsAfterSheet(tids, res), job_id, service,
                 remote, files \o SheetFiles(job_id, res))
SheetLoop(panels, tids, job_id, service, remote, files) ==
  IF panels = <<>> THEN RunOutcome(files, <<>>)
  ELSE AfterSheet(panels, tids, job_id, service, remote, files,
                  transform_sheet(Head(panels), tids, service, remote))

\* ExcelTransformer.transform_excel_multi_sheet on a classified workbook
transform_excel_multi_sheet(book, job_id, service, remote) ==
  SheetLoop(book.panels, extract_terminated_clinic_ids({}, book.term),
            job_id, service, remote, <<>>)

\* _load_postal_code_lookup_once as one step: the table a construction gets
LookupFor(c, file) == IF CacheHit(c) THEN c.table ELSE LoadTable(file)
\* the cache after a run: it is assigned by the loader only
CacheAfter(c, file) == [loaded |-> TRUE, table |-> LookupFor(c, file)]

\* The workbooks of the model
RunSheet(name, col_map, inferred, rows) ==
  [name |-> name, col_map |-> col_map, inferred |-> inferred, rows |-> rows]
RowA1 == PanelRow(Str2("A", "1"), Code40088f, Postal520123s, PyNone, "SINGAPORE")
RowA2 == PanelRow(Str2("A", "2"), Code40088, Postal520999, PyNone, "SINGAPORE")
RowB1 == PanelRow(Str2("B", "1"), Code50001, Postal520123f, PyNone, "SINGAPORE")
RowC1 == PanelRow(Str2("C", "1"), PyNone, Postal520123, PyNone, "SINGAPORE")
RowM1 == PanelRow(Str2("M", "1"), Code70001, Postal81300, PyNone, "MALAYSIA")
AllKeys == {"clinic_name", "clinic_id", "postal_code"}
TermCodeOnly ==
  [ readable |-> TRUE, id_col |-> TRUE, postal_col |-> FALSE,
    rows |-> <<TermRow(Code40088, PyNone, PyNone)>> ]
RunBooks ==
  { \* a mixed-country sheet under a termination list
    [ id |-> "mixed", term |-> <<TermCodeOnly>>,
      panels |-> <<RunSheet("GP", AllKeys, {}, <<RowA1, RowB1, RowM1, RowC1>>)>> ],
    \* two sheets, the second with inferred columns and generated codes
    [ id |-> "two", term |-> <<>>,
      panels |-> << RunSheet("GP", AllKeys, {}, <<RowA2, RowB1>>),
                    RunSheet("TCM", {"postal_code"}, InferredKeys,
                             <<RowC1, RowA2>>) >> ],
    \* the second sheet has no clinic name column
    [ id |-> "failing", term |-> <<>>,
      panels |-> << RunSheet("GP", AllKeys, {}, <<RowB1>>),
                    RunSheet("SP", {"clinic_id", "postal_code"}, {}, <<RowA1>>),
                    RunSheet("TCM", AllKeys, {}, <<RowC1>>) >> ],
    \* no panel sheet
    [ id |-> "empty", term |-> <<TermCodeOnly>>, panels |-> <<>> ] }
\* job_id = str(uuid.uuid4()): every upload gets an id no earlier run had
NewJobId(n) == <<"uuid", n>>
\* what the stubbed remote geocoder answers in a run: a run with the API
\* switched off never reaches it
RemotesFor(use_google_api) ==
  IF use_google_api THEN RemoteOutcomes ELSE {"not_found"}
MaxRuns == 2

BookOf(id) == CHOOSE b \in RunBooks : b.id = id

\* the canonical records of a run: its files in order, without their names
CanonicalRecords(out) ==
  [i \in 1..Len(out.files) |-> out.files[i].records]

InitRuns ==
  /\ runs = <<>>
  /\ reffile \in RefFiles
  /\ cache \in {CacheNone, CacheAfter(CacheNone, reffile)}
  /\ lpc = <<>> /\ local = <<>> /\ got = <<>> /\ nbuilt = 0 /\ nctor = <<>>
  /\ imported = TRUE
  /\ wpc = "idle" /\ terminated_ids = {} /\ nextract = 0 /\ sheet_idx = 0
  /\ termination_sheets = <<>>
  /\ cur = NoCur /\ results = <<>> /\ outcome = NoOutcome
  /\ GeoIdle /\ FnIdle
  /\ BatchIdle

\* one upload: transform_excel_multi_sheet(input_path, output_dir, job_id,
\* use_google_api) from its start to its return
RunWorkbook ==
  /\ Len(runs) < MaxRuns
  /\ \E b \in RunBooks, job_id \in {NewJobId(Len(runs) + 1)},
        use_google_api \in BOOLEAN :
     \E remote \in RemotesFor(use_google_api) :
       runs' = Append(runs,
                 [ book |-> b.id, job_id |-> job_id,
                   use_google_api |-> use_google_api, remote |-> remote,
                   out |-> transform_excel_multi_sheet(b, job_id,
                             NewService(use_google_api, TRUE, TRUE,
                                        LookupFor(cache, reffile)),
                             remote) ])
  /\ cache' = CacheAfter(cache, reffile)
  /\ UNCHANGED <<geoVars, fnVars, batchVars, reffile, lpc, local, got, nbuilt, nctor, imported,
                 wpc, terminated_ids, nextract, termination_sheets, sheet_idx,
                 cur, results, outcome>>

NextRuns == RunWorkbook
SpecRuns == InitRuns /\ [][NextRuns]_vars

\* two finished runs had the same workbook, remote geocoder and API setting
SameInputs(i, j) ==
  /\ runs[i].book = runs[j].book
  /\ runs[i].remote = runs[j].remote
  /\ runs[i].use_google_api = runs[j].use_google_api

-----------------------------------------------------------------------------
(* SpecPostal: extract_postal_code with and without a given country *)

PostalTexts ==
  { PyStr(<<"B", "L", "K", " ", "1", " ", "R", "O", "A", "D", " ", "S", "I", "N", "G", "A", "P", "O", "R", "E", " ", "1", "2", "3", "4", "5", "6">>),
    PyStr(<<"8", "1", "3", "0", "0", " ", "S", "K", "U", "D", "A", "I", ",", " ", "J", "O", "H", "O", "R">>),
    PyStr(<<"B", "l", "k", " ", "1", " ", "P", "e", "n", "a", "n", "g", " ", "R", "o", "a", "d", ",", " ", "S", "i", "n", "g", "a", "p", "o", "r", "e", " ", "2", "3", "8", "4", "6", "9">>),
    PyStr(<<"S", "i", "n", "g", "a", "p", "o", "r", "e", " ", "1", "2", "3", "4", "5", "6", "7">>),
    PyStr(<<"s", "i", "n", "g", "a", "p", "o", "r", "e", " ", " ", "5", "2", "0", "1", "2", "3", " ", "a", "n", "d", " ", "5", "6", "0", "0", "0", "1">>),
    PyStr(<<"1", " ", "O", "a", "k", "l", "a", "n", "d", " ", "A", "v", "e", " ", "5", "2", "0", "1", "2", "3">>),
    PyStr(<<"1", "0", " ", "S", "i", "n", "a", "r", "a", "n", " ", "D", "r", "i", "v", "e", " ", "3", "0", "7", "5", "0", "6", " ", "U", "n", "i", "t", " ", "2", "3", "8", "4", "6", "9">>),
    PyStr(<<"S", "i", "n", "g", "a", "p", "o", "r", "e", " ", "1", "2", "3", "4", "5">>),
    PyStr(<<>>),
    PyStr(<<"N", "o", " ", "d", "i", "g", "i", "t", "s", " ", "h", "e", "r", "e">>),
    PyStr(<<"X", "1", "2", "3", "4", "5", "6">>),
    PyStr(<<"X", "1", "2", "3", "4", "5", "6", ",">>),
    PyStr(<<"L", "o", "t", " ", "8", "1", "2", "0", "0", "1", " ", "J", "o", "h", "o", "r">>),
    PyStr(<<"L", "o", "t", " ", "5", ",", " ", "8", "1", "2", "0", "0">>),
    PyStr(<<"K", "U", "L", "A", "I", " ", "8", "1", "0", "0", "0">>),
    PyStr(<<"J", "a", "l", "a", "n", " ", "1", "2", "3", "4", "5", "6", "7", " ", "K", "L">>),
    PyStr(<<"1", "2", " ", "J", "a", "l", "a", "n", " ", "B", "e", "s", "a", "r", " ", "8", "1", "3", "0", "0">>),
    PyStr(<<"A", "8", "1", "3", "0", "0", "B">>),
    PyStr(<<"1", "2", "3", "4", "5", "6">>),
    PyStr(<<"1", "2", "3", "4", "5">>),
    PyStr(<<"1", "2", "3", "4">>),
    PyStr(<<"S", "i", "n", "g", "a", "p", "o", "r", "e", "1", "2", "3", "4", "5", "6">>),
    PyStr(<<"2", "3", "8", "4", "6", "9", " ", "S", "i", "n", "g", "a", "p", "o", "r", "e", " ", "5", "2", "0", "1", "2", "3">>),
    PyStr(<<"T", "a", "m", "a", "n", " ", "P", "e", "r", "l", "i", "n", "g", ",", " ", "8", "1", "2", "0", "0", " ">>),
    PyStr(<<"8", "1", "3", "0", "0", " ", "8", "0", "0", "0", "0", " ", "J", "o", "h", "o", "r">>),
    PyStr(<<"U", "n", "i", "t", " ", "1", "2", "3", "4", "5", "6", "7", "8">>),
    PyStr(<<"9", "9", " ", "9", "9", "9", "9", "9", "9", " ", "R", "o", "a", "d", " ", "8", "8", "8", "8", "8">>),
    PyStr(<<"S", "i", "n", "g", "a", "p", "o", "r", "e", " ", "5", "2", "0", "1", "2", "3", " ", "M", "a", "l", "a", "y", "s", "i", "a", " ", "8", "1", "3", "0", "0">>),
    PyStr(<<"S", "(", "5", "2", "0", "1", "2", "3", ")">>),
    PyStr(<<"#", "0", "1", "-", "2", "3", " ", "5", "2", "0", "1", "2", "3">>),
    PyStr(<<"P", ".", "O", ".", " ", "8", "1", "3", "0", "0", ";", " ", "8", "1", "4", "0", "0">>),
    PyStr(<<"a", "b", " ", "1", "2", "3", "4", "5", "6", " ", "J", "o", "h", "o", "r">>),
    PyStr(<<" ", "5", "2", "0", "1", "2", "3", " ">>),
    PyNone }
PostalCountries == {NoCountry, "SINGAPORE", "MALAYSIA"}

InitPostal ==
  /\ GeoIdle
  /\ LoadIdle
  /\ BookIdle
  /\ fn \in {Pending([address |-> a, country |-> c]) :
               a \in PostalTexts, c \in PostalCountries}
  /\ BatchIdle

ExtractPostalCode ==
  /\ fn.name = "pending"
  /\ fn' = [name |-> "extract_postal_code", arg |-> fn.arg,
            res |-> extract_postal_code(fn.arg.address, fn.arg.country)]
  /\ UNCHANGED <<geoVars, loadVars, bookVars, batchVars>>

NextPostal == ExtractPostalCode

SpecPostal == InitPostal /\ [][NextPostal]_vars

\* the text extract_postal_code searches
PostalText == Strip(fn.arg.address.s)
PostalCall(country) ==
  fn.name = "extract_postal_code" /\ fn.arg.country = country /\ ~IsNone(fn.arg.address)
\* the positions where the token SINGAPORE, blanks and then 6 digits start
KeywordHits(t) ==
  {s \in 1..Len(t) :
     /\ s + 8 <= Len(t) /\ Lower(SubSeq(t, s, s + 8)) = SingaporeWord
     /\ \E a \in (s + 10)..Len(t) : BlankRun(t, s + 9, a) /\ DigitRun(t, a, 6)}
DigitsAfterKeyword(t, s) ==
  CHOOSE a \in (s + 10)..Len(t) : BlankRun(t, s + 9, a) /\ DigitRun(t, a, 6)
\* the positions where a run of exactly n digits stands between non-word
\* characters or the ends of the text
Standalone(t, n) ==
  {a \in 1..Len(t) :
     /\ DigitRun(t, a, n)
     /\ (a = 1 \/ ~IsWordChar(t[a - 1]))
     /\ (a + n > Len(t) \/ ~IsWordChar(t[a + n]))}
\* the positions where n digits in a row start
AnyRun(t, n) == {a \in 1..Len(t) : DigitRun(t, a, n)}
\* the first pattern of the cascade that matches, 0 when none does
FirstMatching(lt) ==
  IF \A i \in 1..Len(MalaysiaPatterns) :
       MatchStarts(lt, MalaysiaPatterns[i].pre, 5, MalaysiaPatterns[i].post) = {}
    THEN 0
  ELSE Smallest({i \in 1..Len(MalaysiaPatterns) :
         MatchStarts(lt, MalaysiaPatterns[i].pre, 5, MalaysiaPatterns[i].post) # {}})
SingaporeAsClaimed(t) ==
  IF KeywordHits(t) # {}
    THEN GroupAt(t, DigitsAfterKeyword(t, Smallest(KeywordHits(t))), 6)
  ELSE IF Standalone(t, 6) # {} THEN GroupAt(t, Largest(Standalone(t, 6)), 6)
  ELSE PyNone
MalaysiaAsClaimed(t, lt, i) ==
  IF i = 0 THEN PyNone
  ELSE FirstGroup(t, lt, MalaysiaPatterns[i].pre, 5, MalaysiaPatterns[i].post,
                  MatchStarts(lt, MalaysiaPatterns[i].pre, 5, MalaysiaPatterns[i].post))
NDigits(v, n) == ~IsNone(v) /\ Len(v.s) = n /\ AllDigits(v.s)
ExampleSingapore ==
  PyStr(<<"B", "L", "K", " ", "1", " ", "R", "O", "A", "D", " ", "S", "I", "N", "G", "A", "P", "O", "R", "E", " ", "1", "2", "3", "4", "5", "6">>)
ExampleMalaysia ==
  PyStr(<<"8", "1", "3", "0", "0", " ", "S", "K", "U", "D", "A", "I", ",", " ", "J", "O", "H", "O", "R">>)

\* C21: with country SINGAPORE extract_postal_code returns the 6 digits after
\* the first token SINGAPORE that blanks and 6 digits follow, else the last
\* standalone 6-digit run, else None; with country MALAYSIA it returns the
\* first match of the first pattern of the cascade that matches (the first
\* standalone 5-digit run when there is one, None exactly when the text has
\* no 5 digits in a row). A result is 6 digits for SINGAPORE and 5 digits
\* for MALAYSIA; the two examples give '123456' and '81300'.
C21_PostalExtraction ==
  /\ PostalCall("SINGAPORE")
       => /\ fn.res = SingaporeAsClaimed(PostalText)
          /\ IsNone(fn.res) \/ NDigits(fn.res, 6)
          /\ fn.arg.address = ExampleSingapore
               => fn.res = PyStr(<<"1", "2", "3", "4", "5", "6">>)
  /\ PostalCall("MALAYSIA")
       => /\ fn.res = MalaysiaAsClaimed(PostalText, Lower(PostalText),
                                        FirstMatching(Lower(PostalText)))
          /\ IsNone(fn.res) <=> AnyRun(PostalText, 5) = {}
          /\ Standalone(PostalText, 5) # {}
               => fn.res = GroupAt(PostalText, Smallest(Standalone(PostalText, 5)), 5)
          /\ IsNone(fn.res) \/ NDigits(fn.res, 5)
          /\ fn.arg.address = ExampleMalaysia
               => fn.res = PyStr(<<"8", "1", "3", "0", "0">>)

\* a SINGAPORE call on a text without the token and with two standalone
\* 6-digit runs returned the later run
C21_Witness ==
  /\ PostalCall("SINGAPORE")
  /\ KeywordHits(PostalText) = {}
  /\ Cardinality(Standalone(PostalText, 6)) = 2
  /\ fn.res = GroupAt(PostalText, Largest(Standalone(PostalText, 6)), 6)

-----------------------------------------------------------------------------
(* The result entries of a run *)

\* the service a finished run used: the cache is loaded once a run has ended
ServiceOfRun(run) ==
  NewService(run.use_google_api, TRUE, TRUE, cache.table)
\* what transform_sheet returned for a panel sheet of the run's workbook
ResultOfSheet(run, sheet) ==
  transform_sheet(sheet, extract_terminated_clinic_ids({}, BookOf(run.book).term),
                  ServiceOfRun(run), run.remote)
\* the files of the run that carry the sheet's name, in the order written
FilesOf(run, name) == SelectSeq(run.out.files, LAMBDA f : f.filename[2] = name)
Occurrences(records, r) == Cardinality({i \in 1..Len(records) : records[i] = r})
CountriesOf(records) == {records[i].Country : i \in 1..Len(records)}
\* two entries split `all`: each record is in exactly one part, the parts
\* keep one country each
SplitByCountry(all, sg, my) ==
  /\ Len(sg) + Len(my) = Len(all)
  /\ \A i \in 1..Len(all) :
       Occurrences(sg, all[i]) + Occurrences(my, all[i]) = Occurrences(all, all[i])
  /\ CountriesOf(sg) = {"SINGAPORE"} /\ CountriesOf(my) = {"MALAYSIA"}
EntriesOfSheet(res, F) ==
  IF {"SINGAPORE", "MALAYSIA"} \subseteq CountriesOf(res.records)
    THEN /\ Len(F) = 2
         /\ F[1].entry.sheet_name = "SINGAPORE" /\ F[2].entry.sheet_name = "MALAYSIA"
         /\ SplitByCountry(format_postal_codes(res.records), F[1].records, F[2].records)
         /\ F[1].entry.records_processed = Len(F[1].records)
         /\ F[2].entry.records_processed = Len(F[2].records)
         /\ F[1].entry.records_processed + F[2].entry.records_processed
              = res.records_processed
         /\ F[1].entry.terminated_clinics_filtered
              + F[2].entry.terminated_clinics_filtered
              = res.terminated_clinics_filtered
  ELSE /\ Len(F) = 1
       /\ F[1].entry.sheet_name = res.sheet
       /\ F[1].records = format_postal_codes(res.records)
       /\ F[1].entry.records_processed = Len(res.records)
       /\ F[1].entry.terminated_clinics_filtered = res.terminated_clinics_filtered

\* the panel sheets the loop reached, from the first of `panels` on, up to
\* the first one that failed, have the entries claimed
RECURSIVE SheetsAsClaimed(_, _)
SheetAsClaimed(run, panels, res) ==
  res.success
    => /\ EntriesOfSheet(res, FilesOf(run, Head(panels).name))
       /\ SheetsAsClaimed(run, Tail(panels))
SheetsAsClaimed(run, panels) ==
  panels = <<>> \/ SheetAsClaimed(run, panels, ResultOfSheet(run, Head(panels)))

\* C22: for every panel sheet a run has transformed, a sheet whose records
\* hold both countries yields a SINGAPORE entry and a MALAYSIA entry that
\* partition the records, whose counts add up to the sheet's total and that
\* report the sheet's terminated count once; a sheet with one country yields
\* a single entry with all its records.
C22_CountrySplit ==
  \A k \in 1..Len(runs) : SheetsAsClaimed(runs[k], BookOf(runs[k].book).panels)

\* a run split a sheet with a terminated clinic into a SINGAPORE entry
\* that reports it and a MALAYSIA entry, and a later run wrote a sheet of
\* one country as a single file
C22_Witness ==
  /\ Len(runs) = 2
  /\ runs[1].book = "mixed" /\ runs[1].out.success
  /\ Len(runs[1].out.files) = 2
  /\ runs[1].out.files[1].entry.terminated_clinics_filtered = 1
  /\ runs[1].out.files[2].entry.terminated_clinics_filtered = 0
  /\ runs[1].out.files[2].entry.records_processed = 1
  /\ runs[2].book = "two" /\ Len(runs[2].out.files) = 2
  /\ runs[2].out.files[1].entry.records_processed = 2

-----------------------------------------------------------------------------
(* SpecKeys: extract_terminated_clinic_ids over the termination sheets *)

MaxKeyRows == 2
MaxKeySheets == 1
KeySheets ==
  { [readable |-> l[1], id_col |-> l[2], postal_col |-> l[3], rows |-> rs] :
      l \in TermLayouts, rs \in SeqsUpTo(TermRowLib, MaxKeyRows) }

InitKeys ==
  /\ GeoIdle
  /\ LoadIdle
  /\ BookIdle
  /\ fn \in {Pending(ts) : ts \in SeqsUpTo(KeySheets, MaxKeySheets)}
  /\ BatchIdle

ExtractTerminatedIds ==
  /\ fn.name = "pending"
  /\ fn' = [name |-> "extract_terminated_clinic_ids", arg |-> fn.arg,
            res |-> extract_terminated_clinic_ids({}, fn.arg)]
  /\ UNCHANGED <<geoVars, loadVars, bookVars, batchVars>>

NextKeys == ExtractTerminatedIds

SpecKeys == InitKeys /\ [][NextKeys]_vars

\* the postal code recoverable for a row: from the postal column when the
\* sheet has one and the cell holds a code, else from the address
Recoverable(sheet, row) ==
  IF sheet.postal_col /\ Truthy(normalize_code(row.postal))
    THEN normalize_code(row.postal)
  ELSE IF Truthy(row.addr_postal) /\ Truthy(normalize_code(row.addr_postal))
    THEN normalize_code(row.addr_postal)
  ELSE PyNone
\* the key claimed for a row with a provider code
ClaimedKey(sheet, row) == Key(normalize_code(row.code), Recoverable(sheet, row))
\* the rows that contribute: those of the readable sheets with a code
\* column whose provider code is not absent
ClaimedKeys(tsheets) ==
  UNION { { ClaimedKey(tsheets[i], tsheets[i].rows[j]) :
              j \in {x \in 1..Len(tsheets[i].rows) :
                       Truthy(normalize_code(tsheets[i].rows[x].code))} } :
          i \in {x \in 1..Len(tsheets) : tsheets[x].readable /\ tsheets[x].id_col} }

\* C23: the termination set holds, for every row with a provider code of a
\* readable termination sheet that has a code column, the key (code, postal)
\* when a postal code is recoverable from the postal column or the address
\* and (code, None) when it is not, and holds nothing else: no key has an
\* absent code and the other sheets contribute nothing.
C23_TerminationKeys ==
  fn.name = "extract_terminated_clinic_ids"
    => /\ fn.res = ClaimedKeys(fn.arg)
       /\ \A k \in fn.res : Truthy(k.code)

-----------------------------------------------------------------------------
(* The records of a sheet and its source rows *)

\* the rows of the sheet in cur with a non-empty clinic name that the
\* termination filter keeps, in source order
Survivors ==
  SelectSeq(CurValid, LAMBDA row : ~Removed(CurColMap, cur.tids, row))
\* the position among the valid rows of the j-th survivor
ValidPosition(j) ==
  CHOOSE i \in 1..Len(CurValid) :
    /\ CurValid[i] = Survivors[j]
    /\ Len(SelectSeq(SubSeq(CurValid, 1, i),
                     LAMBDA row : ~Removed(CurColMap, cur.tids, row))) = j
\* the record's fields are those of the source row
FromRow(rec, row, i) ==
  /\ rec.Name = row.name
  /\ rec.Code = IF "clinic_id" \in CurColMap THEN row.code
                ELSE AutoCode(i, row.name)
  /\ rec.PostalCode = PostalCodeOf(CurColMap, row)

\* C24: a successful transform_sheet has one record per source row with a
\* non-empty clinic name that survives the termination filter, in source
\* order; records_processed + terminated_clinics_filtered is the number of
\* rows with a non-empty clinic name, and the Code, Name and postal code of
\* a record are those of its source row.
C24_OneRecordPerRow ==
  (cur.done /\ cur.result.success)
    => /\ cur.result.records_processed = Len(cur.result.records)
       /\ cur.result.records_processed + cur.result.terminated_clinics_filtered
            = Len(CurValid)
       /\ Len(cur.result.records) = Len(Survivors)
       /\ \A j \in 1..Len(cur.result.records) :
            FromRow(cur.result.records[j], Survivors[j], ValidPosition(j))

-----------------------------------------------------------------------------
(* The remote geocoder and the service's configuration *)

\* the service has no remote client: the API was disabled by the user, no
\* key is configured, or the client could not be built
RemoteDisabled == ~svc.use_google_api \/ ~svc.geolocator

\* C25: the remote geocoder is requested only when remote geocoding is
\* enabled and an address is present. A service created with
\* use_google_api=False or without an API key never counts an api call over
\* any sequence of geocode calls, and a call on it, or a call whose address
\* is None, blank, 'None' or 'nan', makes no remote request, leaves api_calls
\* as it was and does not return method 'address'.
C25_RemoteOnlyWhenEnabled ==
  /\ RemoteDisabled => svc.geocode_stats.api_calls = 0
  /\ (call.made /\ (RemoteDisabled \/ BlankText(call.address)))
       => /\ NoRemoteCall
          /\ call.method # "address"

\* the second call on a service with a remote client that would have found
\* the address: the address is blank, the postal code is not in the table,
\* and the call fails without a remote request
C25_Witness ==
  /\ ncalls = 2 /\ call.made
  /\ svc.geolocator /\ BlankText(call.address) /\ ~IsNone(call.address)
  /\ call.remote = "found" /\ ~PostalInTable /\ ~call.raised
  /\ call.method = "failed" /\ NoRemoteCall

-----------------------------------------------------------------------------
(* unmerge_and_fill_cells on an openpyxl worksheet *)

MaxWsRows == 2
MaxWsCols == 2
MaxMerged == 2

WsCells == (1..MaxWsRows) \X (1..MaxWsCols)

\* the cells of a merged range (openpyxl MergedCellRange) and its top-left
\* cell (merged_range.start_cell)
CellsOf(rg) == (rg.min_row..rg.max_row) \X (rg.min_col..rg.max_col)
StartCell(rg) == <<rg.min_row, rg.min_col>>

\* every range of more than one cell on the sheet
AllRanges ==
  { rg \in [min_row : 1..MaxWsRows, max_row : 1..MaxWsRows,
            min_col : 1..MaxWsCols, max_col : 1..MaxWsCols] :
      /\ rg.min_row <= rg.max_row /\ rg.min_col <= rg.max_col
      /\ (rg.min_row < rg.max_row \/ rg.min_col < rg.max_col) }

Covered(merged) == UNION {CellsOf(rg) : rg \in merged}

\* the sets of at most n ranges that do not overlap, as a workbook written
\* by a spreadsheet program holds them
RECURSIVE MergeLayouts(_)
MergeLayouts(n) ==
  IF n = 0 THEN {{}}
  ELSE LET L == MergeLayouts(n - 1)
       IN  L \cup UNION { { M \cup {rg} :
                              rg \in {x \in AllRanges :
                                        CellsOf(x) \cap Covered(M) = {}} } :
                          M \in L }

\* the text of a cell that holds one, different for every cell
CellText(c) == PyStr(<<DigitChars[c[1] + 1], DigitChars[c[2] + 1]>>)

\* the worksheets with the merged ranges `merged`: a covered cell other than
\* the top-left one is a MergedCell, whose value is None; every other cell is
\* empty or holds its text
WorksheetsOf(merged) ==
  LET free == (WsCells \ Covered(merged)) \cup {StartCell(rg) : rg \in merged}
  IN  { [cells  |-> [c \in WsCells |-> IF c \in F THEN CellText(c) ELSE PyNone],
         merged |-> merged] : F \in SUBSET free }

Worksheets == UNION {WorksheetsOf(M) : M \in MergeLayouts(MaxMerged)}

\* list(ws.merged_cells.ranges): the ranges in some order
RangeLists(merged) ==
  { o \in [1..Cardinality(merged) -> merged] :
      \A i, j \in DOMAIN o : i # j => o[i] # o[j] }

\* (mutant) only the first row of the range is filled
FillTopRow(cells, rg, merge_value) ==
  [c \in DOMAIN cells |->
     IF c \in CellsOf(rg) /\ c[1] = rg.min_row THEN merge_value ELSE cells[c]]

\* the two nested loops: ws.cell(row=row, column=col).value = merge_value
FillRange(cells, rg, merge_value) ==
  [c \in DOMAIN cells |-> IF c \in CellsOf(rg) THEN merge_value ELSE cells[c]]

\* the loop over merged_ranges from position i: read the top-left value,
\* unmerge the range, fill its cells
RECURSIVE UnmergeLoop(_, _, _)
UnmergeLoop(ws, merged_ranges, i) ==
  IF i > Len(merged_ranges) THEN ws
  ELSE LET rg == merged_ranges[i]
       IN  UnmergeLoop([cells  |-> FillRange(ws.cells, rg, ws.cells[StartCell(rg)]),
                        merged |-> ws.merged \ {rg}],
                       merged_ranges, i + 1)

unmerge_and_fill_cells(ws, merged_ranges) == UnmergeLoop(ws, merged_ranges, 1)

InitUnmerge ==
  /\ GeoIdle
  /\ LoadIdle
  /\ BookIdle
  /\ fn \in {Pending(ws) : ws \in Worksheets}
  /\ BatchIdle

UnmergeAndFill ==
  /\ fn.name = "pending"
  /\ \E merged_ranges \in RangeLists(fn.arg.merged) :
       fn' = [name |-> "unmerge_and_fill_cells", arg |-> fn.arg,
              res |-> unmerge_and_fill_cells(fn.arg, merged_ranges)]
  /\ UNCHANGED <<geoVars, loadVars, bookVars, batchVars>>

NextUnmerge == UnmergeAndFill

SpecUnmerge == InitUnmerge /\ [][NextUnmerge]_vars

\* C26: after unmerge_and_fill_cells no merged range remains, every cell
\* that a merged range covered holds the value the range's top-left cell had
\* before the call, and every cell outside all merged ranges is unchanged.
C26_UnmergeAndFill ==
  fn.name = "unmerge_and_fill_cells" =>
    /\ fn.res.merged = {}
    /\ \A rg \in fn.arg.merged : \A c \in CellsOf(rg) :
         fn.res.cells[c] = fn.arg.cells[StartCell(rg)]
    /\ \A c \in WsCells \ Covered(fn.arg.merged) :
         fn.res.cells[c] = fn.arg.cells[c]

\* a sheet with a range of two rows whose top-left cell holds a text, and a
\* cell outside the ranges that holds one too
C26_Witness ==
  /\ fn.name = "unmerge_and_fill_cells"
  /\ \E rg \in fn.arg.merged :
       /\ rg.min_row < rg.max_row
       /\ ~IsNone(fn.arg.cells[StartCell(rg)])
       /\ fn.res.cells[<<rg.max_row, rg.max_col>>] = fn.arg.cells[StartCell(rg)]
  /\ \E c \in WsCells \ Covered(fn.arg.merged) : ~IsNone(fn.res.cells[c])

-----------------------------------------------------------------------------
(* The keyword phase of map_columns *)

\* a keyword of the key occurs in the label and is at least 40% of it
KeywordAtLeast40(keywords, col_name) ==
  \E i \in 1..Len(keywords) :
    Contains(col_name, keywords[i]) /\ 10 * Len(keywords[i]) >= 4 * Len(col_name)

\* C27 (as claimed): in the keyword phase a key that the earlier phases left
\* unresolved is bound iff some cleaned label contains one of its keywords
\* and the keyword is at least 40% of the label's length, the case of exactly
\* 40% (a 4-character keyword in a 10-character label) included.
C27_KeywordThreshold ==
  (fn.name = "map_columns")
  => \A n \in DOMAIN RemainingMappings :
       RemainingMappings[n].key \notin DOMAIN Phase3Map
       => (RemainingMappings[n].key \in DOMAIN FinalMap
           <=> \E c \in CleanLabels(fn.arg) :
                 KeywordAtLeast40(RemainingMappings[n].keywords, c))

-----------------------------------------------------------------------------
(* The geocoding columns and statistics of a transform_sheet result *)

\* C28: in a successful transform_sheet result the geocoding statistics agree
\* with the records: successful_geocodes = postal_code_matches +
\* address_geocodes, failed_geocodes = total_records - successful_geocodes,
\* total_records = records_processed, and a record's Latitude and Longitude
\* are non-null iff its geocode method was 'postal_code' or 'address'.
C28_GeocodingStats ==
  (cur.done /\ cur.result.success)
    => /\ cur.result.geocoding_stats.successful_geocodes
            = cur.result.geocoding_stats.postal_code_matches
              + cur.result.geocoding_stats.address_geocodes
       /\ cur.result.geocoding_stats.failed_geocodes
            = cur.result.geocoding_stats.total_records
              - cur.result.geocoding_stats.successful_geocodes
       /\ cur.result.geocoding_stats.total_records = cur.result.records_processed
       /\ cur.result.records_processed = Len(cur.result.records)
       /\ cur.result.geocoding_stats.successful_geocodes
            = SuccessfulGeocodes(cur.result.records)
       /\ \A j \in 1..Len(cur.result.records) :
            (NotNa(cur.result.records[j].Latitude)
               /\ NotNa(cur.result.records[j].Longitude))
            <=> cur.result.records[j].method \in {"postal_code", "address"}

\* a sheet with one record found in the table, one found by the remote
\* geocoder and none failed, or with a failed record beside a table hit
C28_Witness ==
  /\ cur.done /\ cur.result.success
  /\ cur.result.geocoding_stats.total_records = MaxRows
  /\ cur.result.geocoding_stats.postal_code_matches > 0
  /\ \/ cur.result.geocoding_stats.address_geocodes > 0
     \/ cur.result.geocoding_stats.failed_geocodes > 0

\* C29 (as claimed): in every record of a successful transform_sheet result
\* GoogleMapURL is present iff the record was geocoded (Latitude and
\* Longitude both set), and it is absent for every record whose geocode
\* method is 'failed', also in a sheet where other records were geocoded.
C29_MapUrlIffGeocoded ==
  (cur.done /\ cur.result.success)
    => \A j \in 1..Len(cur.result.records) :
         /\ (cur.result.records[j].GoogleMapURL # NoCoord)
              <=> (NotNa(cur.result.records[j].Latitude)
                     /\ NotNa(cur.result.records[j].Longitude))
         /\ cur.result.records[j].method = "failed"
              => cur.result.records[j].GoogleMapURL = NoCoord

-----------------------------------------------------------------------------
(* SpecBatch: one upload_batch request and the threads that process its files *)

\* files of one request
MaxFiles == 3
MAX_BATCH_SIZE == 10
MaxPoolWorkers == 2

\* What a file of the request is: a workbook that transforms, one whose
\* transformation returns success False, one that fails the validation, one
\* on which another step raises, an entry without a filename, and a file
\* that is not an Excel file.
FileKinds == {"ok", "failed", "invalid", "raises", "noname", "badext"}

\* BatchProcessor.create_batch_job
create_batch_job(file_count) ==
  [ status |-> "processing", total_files |-> file_count,
    completed_files |-> 0, failed_files |-> 0, results |-> <<>> ]

\* the batch is complete
MarkCompleted(job) ==
  IF job.completed_files + job.failed_files >= job.total_files
    THEN [job EXCEPT !.status = "completed"]
  ELSE job

\* (mutant) a failed file is stored but not counted
update_batch_progress_uncounted(job, file_result) ==
  IF job = NoJob THEN job
  ELSE MarkCompleted(
         [job EXCEPT !.results = Append(@, file_result),
                     !.completed_files = IF file_result.success THEN @ + 1 ELSE @])

\* BatchProcessor.update_batch_progress, the body under the lock
update_batch_progress(job, file_result) ==
  IF job = NoJob THEN job
  ELSE MarkCompleted(
         [job EXCEPT !.results = Append(@, file_result),
                     !.completed_files = IF file_result.success THEN @ + 1 ELSE @,
                     !.failed_files = IF file_result.success THEN @ ELSE @ + 1])

\* process_single_file_in_batch up to its update: the file_result of the try
\* body, or the error_result of the except clause
FileResult(kind, file) ==
  IF kind = "ok" THEN [success |-> TRUE, file |-> file, path |-> "success"]
  ELSE IF kind = "failed"
    THEN [success |-> FALSE, file |-> file, path |-> "transform_failed"]
  ELSE IF kind = "invalid"
    THEN [success |-> FALSE, file |-> file, path |-> "validation"]
  ELSE [success |-> FALSE, file |-> file, path |-> "exception"]

\* the threads of the executor: max_workers = min(len(file_data_list), 2)
PoolWorkers(n) ==
  IF n >= MaxPoolWorkers THEN BatchWorkers ELSE {"w1"}
BatchThreads == BatchWorkers \cup {"req"}

\* the files of the request that pass the validation loop, by position
FileDataList(files) ==
  SelectSeq([i \in 1..Len(files) |-> i], LAMBDA i : files[i] # "noname")

InitBatch ==
  /\ GeoIdle /\ LoadIdle /\ BookIdle /\ FnIdle
  /\ batch_jobs = NoJob /\ lock = "free"
  /\ worker = [t \in BatchThreads |-> IdleWorker]
  /\ upload \in { [ pc |-> "start", files |-> fs, concurrent |-> c,
                    file_data_list |-> <<>>, next |-> 1, results |-> <<>>,
                    response |-> [code |-> 0] ] :
                  fs \in SeqsUpTo(FileKinds, MaxFiles), c \in BOOLEAN }

\* upload_batch up to the creation of the job: the request is refused, or the
\* job is created and the files go to the executor or to the sequential loop
UploadBatchStart ==
  /\ upload.pc = "start"
  /\ lock = "free"
  /\ IF \/ Len(upload.files) = 0
        \/ Len(upload.files) > MAX_BATCH_SIZE
        \/ \E i \in 1..Len(upload.files) : upload.files[i] = "badext"
        \/ FileDataList(upload.files) = <<>>
       THEN /\ upload' = [upload EXCEPT !.pc = "returned", !.response = [code |-> 400]]
            /\ UNCHANGED batch_jobs
       ELSE /\ batch_jobs' = create_batch_job(Len(FileDataList(upload.files)))
            /\ upload' = [upload EXCEPT
                 !.file_data_list = FileDataList(upload.files),
                 !.pc = IF upload.concurrent /\ Len(FileDataList(upload.files)) > 1
                          THEN "pool" ELSE "sequential"]
  /\ UNCHANGED <<geoVars, loadVars, bookVars, fnVars, lock, worker>>

\* a thread starts process_single_file_in_batch on the next file
TakeFile(t) ==
  /\ worker[t].pc = "idle"
  /\ \/ upload.pc = "pool" /\ t \in PoolWorkers(Len(upload.file_data_list))
     \/ upload.pc = "sequential" /\ t = "req"
  /\ upload.next <= Len(upload.file_data_list)
  /\ worker' = [worker EXCEPT ![t] = [pc |-> "processing",
                                      file |-> upload.file_data_list[upload.next],
                                      file_result |-> NoResult]]
  /\ upload' = [upload EXCEPT !.next = @ + 1]
  /\ UNCHANGED <<geoVars, loadVars, bookVars, fnVars, batch_jobs, lock>>

\* the thread reaches its call of update_batch_progress, in the try body or
\* in the except clause
ProcessFile(t) ==
  /\ worker[t].pc = "processing"
  /\ worker' = [worker EXCEPT ![t].pc = "update",
                              ![t].file_result =
                                 FileResult(upload.files[worker[t].file], worker[t].file)]
  /\ UNCHANGED <<geoVars, loadVars, bookVars, fnVars, batch_jobs, lock, upload>>

\* with self.lock:
AcquireLock(t) ==
  /\ worker[t].pc = "update"
  /\ lock = "free"
  /\ lock' = t
  /\ worker' = [worker EXCEPT ![t].pc = "locked"]
  /\ UNCHANGED <<geoVars, loadVars, bookVars, fnVars, batch_jobs, upload>>

\* the body of update_batch_progress and the release of the lock
UpdateBatchProgress(t) ==
  /\ worker[t].pc = "locked"
  /\ lock = t
  /\ batch_jobs' = update_batch_progress(batch_jobs, worker[t].file_result)
  /\ lock' = "free"
  /\ worker' = [worker EXCEPT ![t].pc = "return"]
  /\ UNCHANGED <<geoVars, loadVars, bookVars, fnVars, upload>>

\* process_single_file_in_batch returns and upload_batch appends its result
ReturnResult(t) ==
  /\ worker[t].pc = "return"
  /\ upload' = [upload EXCEPT !.results = Append(@, worker[t].file_result)]
  /\ worker' = [worker EXCEPT ![t] = IdleWorker]
  /\ UNCHANGED <<geoVars, loadVars, bookVars, fnVars, batch_jobs, lock>>

\* every file was processed: get_batch_status under the lock and the response
UploadBatchReturn ==
  /\ upload.pc \in {"pool", "sequential"}
  /\ upload.next > Len(upload.file_data_list)
  /\ \A t \in BatchThreads : worker[t].pc = "idle"
  /\ lock = "free"
  /\ upload' = [upload EXCEPT
       !.pc = "returned",
       !.response = [ code |-> 200, batch_status |-> batch_jobs,
                      total_files |-> Len(upload.file_data_list),
                      successful_files |->
                        Len(SelectSeq(upload.results, LAMBDA r : r.success)),
                      failed_files |->
                        Len(SelectSeq(upload.results, LAMBDA r : ~r.success)) ]]
  /\ UNCHANGED <<geoVars, loadVars, bookVars, fnVars, batch_jobs, lock, worker>>

NextBatch ==
  \/ UploadBatchStart
  \/ \E t \in BatchThreads : TakeFile(t)
  \/ \E t \in BatchThreads : ProcessFile(t)
  \/ \E t \in BatchThreads : AcquireLock(t)
  \/ \E t \in BatchThreads : UpdateBatchProgress(t)
  \/ \E t \in BatchThreads : ReturnResult(t)
  \/ UploadBatchReturn

SpecBatch == InitBatch /\ [][NextBatch]_vars

\* the number of results stored for file `file`
StoredFor(job, file) ==
  Len(SelectSeq(job.results, LAMBDA r : r.file = file))

\* the counters of the job agree with its stored results
CountersConsistent(job) ==
  /\ job.completed_files + job.failed_files = Len(job.results)
  /\ Len(job.results) <= job.total_files
  /\ job.completed_files = Len(SelectSeq(job.results, LAMBDA r : r.success))
  /\ job.total_files = Len(upload.file_data_list)
  /\ \A i \in 1..Len(upload.file_data_list) :
       StoredFor(job, upload.file_data_list[i]) <= 1
  /\ (job.status = "completed")
       <=> (job.completed_files + job.failed_files >= job.total_files)

\* upload_batch has returned with a job: every file was accounted once and
\* the job is completed
EndsCompleted(job) ==
  (upload.pc = "returned")
    => /\ job.status = "completed"
       /\ upload.response.batch_status = job
       /\ \A i \in 1..Len(upload.file_data_list) :
            StoredFor(job, upload.file_data_list[i]) = 1

\* C30: for the batch job, under every interleaving of the threads'
\* update_batch_progress calls, completed_files + failed_files is the number
\* of stored results and at most total_files, every file of the batch is
\* accounted exactly once on the success, validation-error and exception
\* paths, the status is 'completed' iff completed_files + failed_files >=
\* total_files and never goes back to 'processing', and upload_batch ends
\* with the job 'completed'.
C30_BatchCounters ==
  /\ [](batch_jobs # NoJob
          => CountersConsistent(batch_jobs) /\ EndsCompleted(batch_jobs))
  /\ [][batch_jobs.status = "completed" => batch_jobs'.status = "completed"]_vars

\* a request of MaxFiles files run by the two workers has returned; files
\* took the success, the validation-error and the exception path, and the
\* results were stored in another order than the files were submitted
C30_Witness ==
  /\ upload.pc = "returned" /\ upload.concurrent
  /\ batch_jobs # NoJob /\ batch_jobs.total_files = MaxFiles
  /\ batch_jobs.completed_files > 0
  /\ \E i \in 1..Len(batch_jobs.results) : batch_jobs.results[i].path = "validation"
  /\ \E i \in 1..Len(batch_jobs.results) : batch_jobs.results[i].path = "exception"
  /\ batch_jobs.results[1].file # upload.file_data_list[1]

====
